---- MODULE Spec2Model ----
(***************************************************************************)
(* ACS edge translator: one Device (device.js) on one DeviceConnection,    *)
(* with its Metrics store (helpers/typeHandler.js), the Sparkplug frames   *)
(* it hands to the node, its watchdog and its subscription timer.          *)
(***************************************************************************)
EXTENDS Integers, Sequences, FiniteSets, TLC

(***************************************************************************)
(* Bounds of the model.                                                    *)
(***************************************************************************)
TickMs == 5000
MaxTicks == 4
MaxPendingBirths == 2
MaxPendingWrites == 1
MaxLeakedTimers == 1
MaxPendingConf == 1
MaxSubscriptions == 1
MaxDriverWrites == 2
MaxAttempts == 2
MaxMetrics == 3
PollInt == 10

(***************************************************************************)
(* Program constants.                                                      *)
(***************************************************************************)
WatchdogPeriod == 10000
InitPollInt == 1000
NewPollInt == 2500

StartTime == TickMs
MaxTime == StartTime + MaxTicks * TickMs

(***************************************************************************)
(* JavaScript values: numbers, strings (sequences of characters),          *)
(* booleans, null and undefined, as tagged records of one shape.           *)
(***************************************************************************)
Num(n) == [k |-> "num", n |-> n, s |-> <<>>]
Str(s) == [k |-> "str", n |-> 0, s |-> s]
Bool(b) == [k |-> "bool", n |-> IF b THEN 1 ELSE 0, s |-> <<>>]
Null == [k |-> "null", n |-> 0, s |-> <<>>]
Undef == [k |-> "undef", n |-> 0, s |-> <<>>]
NaN == [k |-> "nan", n |-> 0, s |-> <<>>]

Digits == {"0", "1", "2", "3", "4", "5", "6", "7", "8", "9"}
DigitVal(c) ==
    CASE c = "0" -> 0 [] c = "1" -> 1 [] c = "2" -> 2 [] c = "3" -> 3
      [] c = "4" -> 4 [] c = "5" -> 5 [] c = "6" -> 6 [] c = "7" -> 7
      [] c = "8" -> 8 [] OTHER -> 9

\* Length of the longest prefix of s made of decimal digits.
RECURSIVE DigitPrefixLen(_)
DigitPrefixLen(s) ==
    IF s = <<>> \/ Head(s) \notin Digits THEN 0 ELSE 1 + DigitPrefixLen(Tail(s))

RECURSIVE DigitsToNat(_, _)
DigitsToNat(s, acc) ==
    IF s = <<>> THEN acc ELSE DigitsToNat(Tail(s), acc * 10 + DigitVal(Head(s)))

\* parseInt(val): the leading decimal digits; NaN (here Null after the isNaN test) if none.
ParseInt(s) ==
    LET n == DigitPrefixLen(s)
    IN  IF n = 0 THEN Null ELSE Num(DigitsToNat(SubSeq(s, 1, n), 0))

\* stringToBoolean: "false", "no", "0", "" are false, everything else true.
StringToBoolean(s) ==
    Bool(~(s \in {<<>>, <<"0">>, <<"n", "o">>, <<"f", "a", "l", "s", "e">>}))

IsIntType(type) ==
    type \in {"int8", "int16", "int32", "int64", "uInt8", "uInt16", "uInt32", "uInt64"}

\* parseTypeFromString(type, val) for the types the modelled device declares.
ParseTypeFromString(type, val) ==
    IF val.k # "str" THEN val
    ELSE IF IsIntType(type) THEN ParseInt(val.s)
    ELSE IF type = "boolean" THEN StringToBoolean(val.s)
    ELSE val

\* JavaScript truthiness, v == 0, and typeof v === "object".
Truthy(v) ==
    CASE v.k = "num" -> v.n # 0
      [] v.k = "str" -> v.s # <<>>
      [] v.k = "bool" -> v.n = 1
      [] OTHER -> FALSE

RECURSIVE AllZeroDigits(_)
AllZeroDigits(s) == s = <<>> \/ (Head(s) = "0" /\ AllZeroDigits(Tail(s)))

LooseEqZero(v) ==
    CASE v.k = "num" -> v.n = 0
      [] v.k = "str" -> AllZeroDigits(v.s)
      [] v.k = "bool" -> v.n = 0
      [] OTHER -> FALSE

TypeofObject(v) == v.k = "null"

(***************************************************************************)
(* The metrics of the modelled device: the three default metrics of every  *)
(* Device followed by the metrics of its configuration (options.metrics):  *)
(* a read-only one, a readable and writable one, a write-only one, and a   *)
(* read-only one that takes the whole payload of its address (no path).    *)
(* method, address and path are metric.properties.<x>.value; method is a   *)
(* sequence of characters so that /^GET/ and !== "GET" are computed.       *)
(***************************************************************************)
NoMethod == <<>>
MGet == <<"G", "E", "T">>
MGetSet == <<"G", "E", "T", "_", "S", "E", "T">>
MPut == <<"P", "U", "T">>

PollingIntervalName == "Device Control/Polling Interval"
RebootName == "Device Control/Reboot"
RebirthName == "Device Control/Rebirth"

DefaultMetrics ==
    << [name |-> PollingIntervalName, type |-> "uInt16", method |-> NoMethod,
        address |-> "", path |-> "", value |-> Num(InitPollInt), alias |-> 0],
       [name |-> RebootName, type |-> "boolean", method |-> NoMethod,
        address |-> "", path |-> "", value |-> Bool(FALSE), alias |-> 0],
       [name |-> RebirthName, type |-> "boolean", method |-> NoMethod,
        address |-> "", path |-> "", value |-> Bool(FALSE), alias |-> 0] >>

OptionsMetrics ==
    << [name |-> "Temp", type |-> "uInt16", method |-> MGet,
        address |-> "a1", path |-> "$.v", value |-> Undef, alias |-> 0],
       [name |-> "Mode", type |-> "uInt16", method |-> MGetSet,
        address |-> "a2", path |-> "$.v", value |-> Undef, alias |-> 0],
       [name |-> "Setpoint", type |-> "uInt16", method |-> MPut,
        address |-> "a3", path |-> "", value |-> Undef, alias |-> 0],
       [name |-> "Level", type |-> "uInt16", method |-> MGet,
        address |-> "a1", path |-> "", value |-> Undef, alias |-> 0] >>

\* Metrics.#array after new Metrics(defaultMetrics) and add(options.metrics).
MetricConf == DefaultMetrics \o OptionsMetrics
MetricIdx == 1..Len(MetricConf)

\* method.value.search(/^GET/g) > -1
StartsWithGET(method) == Len(method) >= 3 /\ SubSeq(method, 1, 3) = MGet

Max(S) == CHOOSE x \in S : \A y \in S : y <= x

\* #nameIndex[name]: the last metric added under that name; 0 stands for undefined.
NameIndex(name) ==
    LET S == {i \in MetricIdx : MetricConf[i].name = name}
    IN  IF S = {} THEN 0 ELSE Max(S)

\* #addrPathIndex[addr][path]: only metrics whose method starts with GET are indexed.
AddrPathIndex(addr, path) ==
    LET S == {i \in MetricIdx : /\ StartsWithGET(MetricConf[i].method)
                                /\ MetricConf[i].address = addr
                                /\ MetricConf[i].path = path}
    IN  IF S = {} THEN 0 ELSE Max(S)

\* Object.keys(#addrPathIndex[addr] || {}): the paths in the order of first insertion.
RECURSIVE PathsUpTo(_, _)
PathsUpTo(addr, n) ==
    IF n = 0 THEN <<>>
    ELSE LET prev == PathsUpTo(addr, n - 1)
             m == MetricConf[n]
         IN  IF /\ StartsWithGET(m.method)
                /\ m.address = addr
                /\ \A j \in 1..Len(prev) : prev[j] # m.path
             THEN Append(prev, m.path)
             ELSE prev

GetPathsForAddr(addr) == PathsUpTo(addr, Len(MetricConf))

\* The mutable part of the store: value, timestamp (0 stands for undefined) and isNull.
InitMetrics ==
    [i \in MetricIdx |->
        [value |-> MetricConf[i].value,
         timestamp |-> IF i <= Len(DefaultMetrics) THEN StartTime ELSE 0,
         isNull |-> FALSE]]

\* The body shared by setValueByName / setValueByAddrPath: timestamp || Date.now().
SetValueByIndex(ms, i, value, timestamp, clock) ==
    [ms EXCEPT ![i] = [value |-> value,
                       timestamp |-> IF timestamp # 0 THEN timestamp ELSE clock,
                       isNull |-> (value = Null)]]

SetValueByName(ms, name, value, timestamp, clock) ==
    SetValueByIndex(ms, NameIndex(name), value, timestamp, clock)

SetValueByAddrPath(ms, addr, path, value, timestamp, clock) ==
    SetValueByIndex(ms, AddrPathIndex(addr, path), value, timestamp, clock)

(***************************************************************************)
(* Payloads. A data event carries obj = {address: raw}; raw is a JSON      *)
(* document {"v": <value>, "timestamp": <ms>} in which either member may   *)
(* be missing (v = Undef, ts = 0). present = FALSE: obj has no such key.   *)
(***************************************************************************)
Addresses == <<"a1", "a2">>

NoDoc == [present |-> FALSE, v |-> Undef, ts |-> 0, ok |-> TRUE]
Doc(v, ts) == [present |-> TRUE, v |-> v, ts |-> ts, ok |-> TRUE]

\* A message whose text is not JSON: JSON.parse throws on it.
InvalidJson == [present |-> TRUE, v |-> Str(<<"{">>), ts |-> 0, ok |-> FALSE]

\* What a call gives that ends with an exception instead of a value.
Thrown == [k |-> "thrown", n |-> 0, s |-> <<>>]

\* JSONPath({path, json})[0]
JsonPathFirst(doc, path) ==
    CASE path = "$.v" -> doc.v
      [] path = "$.timestamp" -> IF doc.ts = 0 THEN Undef ELSE Num(doc.ts)
      [] OTHER -> Undef

\* msg.toString() of a string or a number; a number is written in decimal.
RECURSIVE NatToDigits(_)
NatToDigits(n) ==
    IF n < 10 THEN <<CHOOSE c \in Digits : DigitVal(c) = n>>
    ELSE Append(NatToDigits(n \div 10), CHOOSE c \in Digits : DigitVal(c) = n % 10)

MsgToString(v) == IF v.k = "num" THEN Str(NatToDigits(v.n)) ELSE v

\* parseValueFromPayload for the JSON format and for the delimited format
\* with no delimiter: the whole message is the value of a metric without a
\* path, and indexing the message string with a path gives undefined.
\* JSON: the catch around JSON.parse leaves payload undefined for a message
\* that is not JSON; JSONPath({path, json: undefined}) evaluates to undefined
\* (jsonpath-plus evaluates nothing without a document), and newVal[0] on it
\* is a TypeError that nothing in parseValueFromPayload catches.
ParseValueFromPayload(msg, conf, payloadFormat) ==
    IF payloadFormat = "JSON"
    THEN IF conf.path # ""
         THEN IF msg.ok
              THEN ParseTypeFromString(conf.type, JsonPathFirst(msg, conf.path))
              ELSE Thrown
         ELSE Undef
    ELSE IF payloadFormat = "Delimited String"
    THEN IF conf.path # ""
         THEN Undef
         ELSE ParseTypeFromString(conf.type, MsgToString(msg.v))
    ELSE Undef

\* parseTimeStampFromPayload: $.timestamp for JSON, undefined (0) otherwise.
ParseTimeStampFromPayload(msg, payloadFormat) ==
    IF payloadFormat = "JSON"
    THEN LET t == JsonPathFirst(msg, "$.timestamp") IN IF t.k = "num" THEN t.n ELSE 0
    ELSE 0

\* Object.keys(obj), in insertion order.
RECURSIVE KeysFrom(_, _)
KeysFrom(obj, n) ==
    IF n > Len(Addresses) THEN <<>>
    ELSE IF obj[Addresses[n]].present
         THEN <<Addresses[n]>> \o KeysFrom(obj, n + 1)
         ELSE KeysFrom(obj, n + 1)

ObjKeys(obj) == KeysFrom(obj, 1)

(***************************************************************************)
(* The Metrics class as an object: #array and the indices #buildIndices    *)
(* maintains. A JavaScript object is the sequence of its entries [k, v] in *)
(* insertion order; 0 stands for undefined.                                *)
(***************************************************************************)
RECURSIVE JsFind(_, _, _)
JsFind(o, k, n) ==
    IF n > Len(o) THEN 0 ELSE IF o[n].k = k THEN n ELSE JsFind(o, k, n + 1)

JsHas(o, k) == JsFind(o, k, 1) # 0
JsGet(o, k, default) == IF JsHas(o, k) THEN o[JsFind(o, k, 1)].v ELSE default
JsSet(o, k, v) ==
    IF JsHas(o, k) THEN [o EXCEPT ![JsFind(o, k, 1)].v = v] ELSE Append(o, [k |-> k, v |-> v])
JsKeys(o) == [n \in 1..Len(o) |-> o[n].k]

\* An index that takes every metric, whatever its method.
IndexedAny(metric) == TRUE

\* properties, address and path are there and method.value.search(/^GET/g) > -1
Indexed(metric) == StartsWithGET(metric.method)

\* The body of the loop of #buildIndices for the metric at position i.
BuildIndex(st, i) ==
    LET metric == st.array[i]
        addr == metric.address
        st1 == [st EXCEPT !.nameIndex = JsSet(@, metric.name, i)]
    IN  IF Indexed(metric)
        THEN [st1 EXCEPT !.addrIndex = JsSet(@, addr, JsGet(@, addr, <<>>) \o <<i, i>>),
                         !.addrPathIndex = JsSet(@, addr, JsSet(JsGet(@, addr, <<>>), metric.path, i))]
        ELSE st1

RECURSIVE BuildIndices(_, _)
BuildIndices(st, i) ==
    IF i > Len(st.array) THEN st ELSE BuildIndices(BuildIndex(st, i), i + 1)

\* new Metrics(metricArr)
MetricsNew(metricArr) ==
    BuildIndices([array |-> metricArr, nameIndex |-> <<>>, aliasIndex |-> <<>>,
                  addrPathIndex |-> <<>>, addrIndex |-> <<>>], 1)

\* add(metrics)
MetricsAdd(st, ms) == BuildIndices([st EXCEPT !.array = @ \o ms], 1)

\* A setAlias that is one position off.
MetricsSetAliasShifted(st, index, alias) ==
    [st EXCEPT !.array[index].alias = alias,
               !.aliasIndex = JsSet(@, alias, index + 1)]

\* setAlias(index, alias)
MetricsSetAlias(st, index, alias) ==
    [st EXCEPT !.array[index].alias = alias,
               !.aliasIndex = JsSet(@, alias, index)]

\* getByAlias(alias), as a position in #array (0: undefined)
MetricsGetByAlias(st, alias) ==
    LET i == JsGet(st.aliasIndex, alias, 0)
    IN  IF i \in 1..Len(st.array) THEN i ELSE 0

\* _handleDCmd: if (!metric.name) metric.name = getByAlias(metric.alias).name;
\* reading .name of undefined throws.
Throws == [thrown |-> TRUE, name |-> ""]
DCmdName(st, metric) ==
    IF metric.name # "" THEN [thrown |-> FALSE, name |-> metric.name]
    ELSE IF MetricsGetByAlias(st, metric.alias) = 0 THEN Throws
    ELSE [thrown |-> FALSE, name |-> st.array[MetricsGetByAlias(st, metric.alias)].name]

\* get addresses
MetricsAddresses(st) == JsKeys(st.addrPathIndex)

\* getByAddress(addr), as positions in #array
MetricsGetByAddress(st, addr) == JsGet(st.addrIndex, addr, <<>>)

\* getPathsForAddr(addr)
MetricsGetPathsForAddr(st, addr) == JsKeys(JsGet(st.addrPathIndex, addr, <<>>))

\* getByAddrPath(addr, path), as a position in #array
MetricsGetByAddrPath(st, addr, path) == JsGet(JsGet(st.addrPathIndex, addr, <<>>), path, 0)

\* The store of the modelled device: the default metrics, then add(options.metrics).
DeviceStore == MetricsAdd(MetricsNew(DefaultMetrics), OptionsMetrics)

Metric(name, method, address, path) ==
    [name |-> name, type |-> "uInt16", method |-> method,
     address |-> address, path |-> path, value |-> Undef, alias |-> 0]

\* Metrics to build stores from: read and written ones at one address with
\* different paths, a written one and another read one with the same address
\* and path as the first, one at another address, one without a method.
SomeMetrics ==
    {Metric("A", MGet, "a1", "$.v"),
     Metric("B", MGetSet, "a1", "$.w"),
     Metric("C", MPut, "a1", "$.v"),
     Metric("D", MGet, "a2", ""),
     Metric("E", MGet, "a1", "$.v"),
     Metric("F", NoMethod, "", "")}

\* The arrays handed to the constructor and to add().
Batches == {<<>>} \cup {<<m>> : m \in SomeMetrics} \cup {<<m1, m2>> : m1, m2 \in SomeMetrics}

(***************************************************************************)
(* Fixed buffers (lib/helpers/typeHandler.js).  A buffer is a sequence of  *)
(* bytes; Node's byte offset o is position o + 1.                          *)
(***************************************************************************)
\* byteOrder
LittleEndian == 1234
BigEndian == 4321
PDPEndian == 3412

Endiannesses == {0, BigEndian, LittleEndian, PDPEndian}
BufferTypes == {"uInt8", "uInt16", "uInt32"}

\* The bytes a raw buffer is made of, and the raw buffers.
Bytes == {1, 2, 3, 4}
BufLen == 4
Buffers == [1..BufLen -> Bytes]

getEndianString(endianness) ==
    CASE endianness = BigEndian -> "BE"
      [] endianness = LittleEndian -> "LE"
      [] endianness = PDPEndian -> "PDP"
      [] OTHER -> ""

\* Buffer.swap16(): the two bytes of every 16-bit unit change places.
Swap16(b) == [i \in 1..Len(b) |-> IF i % 2 = 1 THEN b[i + 1] ELSE b[i - 1]]

\* buf.subarray(byteAddr, byteAddr + n).swap16(): the view shares the memory
\* of buf, so the n bytes are swapped inside buf itself.
SwapInPlace(buf, byteAddr, n) ==
    LET view == SubSeq(buf, byteAddr + 1, byteAddr + n)
    IN  [i \in 1..Len(buf) |->
            IF i > byteAddr /\ i <= byteAddr + n THEN Swap16(view)[i - byteAddr]
            ELSE buf[i]]

ReadUInt8(buf, o) == buf[o + 1]
ReadUInt16BE(buf, o) == 256 * buf[o + 1] + buf[o + 2]
ReadUInt16LE(buf, o) == 256 * buf[o + 2] + buf[o + 1]
ReadUInt32BE(buf, o) ==
    16777216 * buf[o + 1] + 65536 * buf[o + 2] + 256 * buf[o + 3] + buf[o + 4]
ReadUInt32LE(buf, o) ==
    16777216 * buf[o + 4] + 65536 * buf[o + 3] + 256 * buf[o + 2] + buf[o + 1]

\* parseValFromBuffer(type, endianness, byteAddr, buf): the value returned,
\* and the bytes of buf after the call.
parseValFromBuffer(type, endianness, byteAddr, buf) ==
    LET fullType == IF type = "uInt8" THEN "uInt8"
                    ELSE <<type, getEndianString(endianness)>>
    IN  CASE fullType = "uInt8" ->
               [value |-> Num(ReadUInt8(buf, byteAddr)), buf |-> buf]
          [] fullType = <<"uInt16", "BE">> ->
               [value |-> Num(ReadUInt16BE(buf, byteAddr)), buf |-> buf]
          [] fullType = <<"uInt16", "LE">> ->
               [value |-> Num(ReadUInt16LE(buf, byteAddr)), buf |-> buf]
          [] fullType = <<"uInt32", "BE">> ->
               [value |-> Num(ReadUInt32BE(buf, byteAddr)), buf |-> buf]
          [] fullType = <<"uInt32", "LE">> ->
               [value |-> Num(ReadUInt32LE(buf, byteAddr)), buf |-> buf]
          [] fullType = <<"uInt32", "PDP">> ->
               LET swapped == SwapInPlace(buf, byteAddr, 4)
               IN  [value |-> Num(ReadUInt32BE(SubSeq(swapped, byteAddr + 1, byteAddr + 4), 0)),
                    buf |-> swapped]
          [] OTHER -> [value |-> Undef, buf |-> buf]

\* The device is configured for JSON payloads; no buffer has been received yet.
NewCodec ==
    [format |-> "JSON", buf |-> <<>>, type |-> "", endianness |-> 0, byteAddr |-> 0,
     out |-> Undef]

(***************************************************************************)
(* The ASCII TCP driver: requests are written to the socket, and the bytes  *)
(* that come back are cut into responses at the delimiter.                 *)
(***************************************************************************)
Delimiter == "D"
MaxRequests == 3

\* What the device can answer a request with, before the delimiter.
AsciiResponses == {<<>>, <<"a">>, <<"a", "b">>}

\* String.indexOf(delimiter): the position of the first delimiter, from 0,
\* or -1.
IndexOf(q) ==
    IF \E i \in 1..Len(q) : q[i] = Delimiter
    THEN (CHOOSE i \in 1..Len(q) : q[i] = Delimiter /\ \A j \in 1..(i - 1) : q[j] # Delimiter) - 1
    ELSE -1

\* The while loop of _receiveData, run on the connection a after
\* _queue += data. A request made while there was no socket has no
\* promiseResolve: calling it throws.
RECURSIVE ReceiveLoop(_)
ReceiveLoop(a) ==
    LET nextChunk == IndexOf(a.queue)
    IN  IF ~(nextChunk > 0) THEN a
        ELSE LET response == SubSeq(a.queue, 1, nextChunk)
                 a1 == [a EXCEPT !.queue = SubSeq(a.queue, nextChunk + 2, Len(a.queue))]
             IN  IF a.promiseResolutionQueue = <<>> THEN ReceiveLoop(a1)
                 ELSE LET promRes == Head(a.promiseResolutionQueue)
                          a2 == [a1 EXCEPT !.promiseResolutionQueue = Tail(@)]
                      IN  IF promRes.promiseResolve
                          THEN ReceiveLoop([a2 EXCEPT !.resolved = Append(@, <<promRes.req, response>>)])
                          ELSE [a2 EXCEPT !.thrown = TRUE]

\* The connection after its constructor: no socket until open() has run.
\* issued counts the sendMessage calls, unanswered the requests written that
\* the device has not answered, wire holds the bytes sent back and not yet
\* received, received all bytes received, resolved the promises resolved,
\* in order, each with its request and the value it was resolved with.
NewASCII ==
    [socket |-> FALSE, queue |-> <<>>, promiseResolutionQueue |-> <<>>,
     issued |-> 0, unanswered |-> 0, wire |-> <<>>, received |-> <<>>,
     resolved |-> <<>>, thrown |-> FALSE]

(***************************************************************************)
(* FormatConfig: a declared tag becomes a metric. A type is the sequence   *)
(* of its characters; "u" stands for a character of the base type.         *)
(***************************************************************************)
TypeChars == {"u", "B", "L", "E"}
MaxTypeLen == 4

\* The declared types: a base character, then any characters.
DeclaredTypes ==
    UNION {{<<"u">> \o rest : rest \in [1..n -> TypeChars]} : n \in 0..(MaxTypeLen - 1)}

EndsWith(s, suffix) ==
    Len(s) >= Len(suffix) /\ SubSeq(s, Len(s) - Len(suffix) + 1, Len(s)) = suffix

\* type.replace(/[BL]E/g, ""): every BE and LE is taken out, from the left.
RECURSIVE ReplaceBLE(_)
ReplaceBLE(s) ==
    IF s = <<>> THEN <<>>
    ELSE IF Len(s) >= 2 /\ s[1] \in {"B", "L"} /\ s[2] = "E"
         THEN ReplaceBLE(SubSeq(s, 3, Len(s)))
         ELSE <<s[1]>> \o ReplaceBLE(Tail(s))

\* rehashTag(tag): tag.type is replaced first; the type and the endianness of
\* the metric are then taken from the replaced type.
rehashTag(t) ==
    LET type == ReplaceBLE(t.type)
    IN  [type |-> type,
         endianness |-> IF EndsWith(type, <<"B", "E">>) THEN Num(BigEndian)
                        ELSE IF EndsWith(type, <<"L", "E">>) THEN Num(LittleEndian)
                        ELSE Null]

NoMetric == [type |-> <<>>, endianness |-> Undef]

NewTag == [type |-> <<"u">>, metric |-> NoMetric]

(***************************************************************************)
(* ./config/conf.json and the #updateConfig calls that rewrite it.         *)
(***************************************************************************)
ConfDevices == {"A", "B"}
MaxConfCmds == 2

ConfEntry(deviceId) == [deviceId |-> deviceId, pollInt |-> InitPollInt, payloadFormat |-> "JSON"]

\* conf.deviceConnections[i].devices: two connections, the second with two devices.
ConfFile == << <<ConfEntry("A")>>, <<ConfEntry("B"), ConfEntry("C")>> >>

\* The inner loop of #updateConfig: the first device of the connection whose
\* deviceId is name gets dev[key] = value, and the loop breaks.
RECURSIVE UpdateDevices(_, _, _)
UpdateDevices(devices, name, value) ==
    IF devices = <<>> THEN <<>>
    ELSE IF Head(devices).deviceId = name
         THEN <<[Head(devices) EXCEPT !.pollInt = value]>> \o Tail(devices)
         ELSE <<Head(devices)>> \o UpdateDevices(Tail(devices), name, value)

\* The outer loop: every connection is visited.
UpdateConf(conf, name, value) ==
    [i \in 1..Len(conf) |-> UpdateDevices(conf[i], name, value)]

\* The file as installed, no rewrite in flight, both devices at their
\* configured polling interval.
NewFile ==
    [conf |-> ConfFile, ops |-> <<>>,
     pollInt |-> [d \in ConfDevices |-> InitPollInt],
     cmds |-> [d \in ConfDevices |-> 0]]

(***************************************************************************)
(* State.                                                                  *)
(***************************************************************************)
VARIABLES
    isConnected,     \* Device._isConnected
    isAlive,         \* Device.#isAlive
    pendingBirths,   \* publishDBirth promises whose then-callback has not run yet
    metrics,         \* Device._metrics: value, timestamp, isNull of each metric
    deathTimer,      \* Device.#deathTimer: armed with time left, fired, or cleared
    readyInterval,   \* the constructor's readiness poll is still installed
    intHandle,       \* DeviceConnection.#intHandles[deviceId]
    leakedTimers,    \* interval timers still running whose handle was overwritten
    lastLifeFrame,   \* the last BIRTH or DEATH frame handed to the Sparkplug node, if any
    pendingWrites,   \* driver writes whose callback has not been invoked yet
    pendingConf,     \* #updateConfig calls whose file rewrite has not happened yet
    confPollInt,     \* pollInt of this device's entry in ./config/conf.json
    now,             \* Date.now()
    calls,           \* what the last step called on the driver, node and file, with arguments
    prevObj,         \* payload of the last data event, while no other handler ran, and
                     \* whether the data event before it carried the same values
    sinceRefresh,    \* time since the last data event or successful write
    lateRefresh,     \* some gap between such events reached the watchdog period
    quiet,           \* time spent connected and alive since the last data event or write
    drv,             \* the DeviceConnection the device is bound to: which class it is and
                     \* the state of that class
    tr,              \* the Translator: where start() or stop() is, and what it has built
    store,           \* a Metrics object: #array and the indices built over it
    codec,           \* Device._payloadFormat, the raw buffer of a fixedBuffer payload and
                     \* what was decoded from it
    file,            \* ./config/conf.json, the #updateConfig calls in flight, and each
                     \* device's Polling Interval
    ascii,           \* an ASCIITCPConnection: its socket, _queue and
                     \* _promiseResolutionQueue, and the bytes on their way to it
    tag              \* a tag of the configuration document, and the metric
                     \* rehashTag made of it

vars == <<isConnected, isAlive, pendingBirths, metrics, deathTimer, readyInterval,
          intHandle, leakedTimers, lastLifeFrame, pendingWrites, pendingConf, confPollInt,
          now, calls, prevObj, sinceRefresh, lateRefresh,
          quiet, drv, tr, store, codec, file, ascii, tag>>

Armed(left) == [state |-> "armed", left |-> left]
Fired == [state |-> "fired", left |-> 0]
Cleared == [state |-> "cleared", left |-> 0]

NoHandle == [active |-> FALSE, interval |-> 0]
Handle(interval) == [active |-> TRUE, interval |-> interval]

Called(op, arg) == [op |-> op, arg |-> arg]

\* The DeviceConnection classes of the repository.
DriverKinds == {"DeviceConnection", "S7", "OPCUA", "ASCIITCP", "OpenProtocol"}

\* A connection after its constructor: opened (it has emitted open), session
\* (OPC UA #session is set), linked (S7 endpoint is connected), subscriptions
\* (OPC UA subscriptions that deliver notifications), subscribed
\* (startSubscription has been called and stopSubscription has not returned
\* since), closed (close() has been called since the last open), writes (one entry per call
\* of writeMetrics: still awaiting the device or not, and how often its
\* callback has been invoked).
NewDriver(kind) ==
    [kind |-> kind, opened |-> FALSE, session |-> FALSE, linked |-> FALSE,
     subscriptions |-> 0, subscribed |-> FALSE, closed |-> FALSE, writes |-> <<>>]
NoPrevObj == [isData |-> FALSE, obj |-> [a \in {"a1", "a2"} |-> NoDoc], same |-> FALSE]

\* Two payloads carry the same value at every address (timestamps aside).
SameValues(o1, o2) ==
    \A a \in {"a1", "a2"} : o1[a].present = o2[a].present /\ o1[a].v = o2[a].v

Min(a, b) == IF a < b THEN a ELSE b

\* this._payloadFormat
PayloadFormat == codec.format

\* The device (and its driver entry) as one record, so that a handler's
\* statements compose in order.
Self ==
    [isConnected |-> isConnected, isAlive |-> isAlive, pendingBirths |-> pendingBirths,
     metrics |-> metrics, deathTimer |-> deathTimer, intHandle |-> intHandle,
     leakedTimers |-> leakedTimers, lastLifeFrame |-> lastLifeFrame,
     pendingWrites |-> pendingWrites,
     pendingConf |-> pendingConf, drv |-> drv, calls |-> <<>>]

Call(d, op, arg) == [d EXCEPT !.calls = Append(@, Called(op, arg))]

\* this._metrics.array as the node sees it: name and value of every metric.
MetricsArray(ms) == [i \in MetricIdx |-> [name |-> MetricConf[i].name, value |-> ms[i].value]]

(***************************************************************************)
(* Device: publishing.                                                     *)
(***************************************************************************)
\* A birth that takes the device offline until its publish has completed.
PublishDBirthOffline(d, readRequired) ==
    IF d.isConnected
    THEN [Call(d, "publishDBirth", MetricsArray(d.metrics)) EXCEPT
             !.lastLifeFrame = "BIRTH",
             !.pendingBirths = @ + 1,
             !.isAlive = FALSE]
    ELSE d

PublishDBirth(d, readRequired) ==
    IF d.isConnected
    THEN LET d1 == IF readRequired THEN Call(d, "readMetrics", <<>>) ELSE d
         IN  [Call(d1, "publishDBirth", MetricsArray(d.metrics)) EXCEPT
                 !.lastLifeFrame = "BIRTH",
                 !.pendingBirths = @ + 1]
    ELSE d

PublishDData(d, ms) ==
    IF d.isAlive
    THEN Call(d, "publishDData", ms)
    ELSE PublishDBirth(d, FALSE)

PublishDDeath(d) ==
    IF d.isConnected
    THEN [Call(d, "publishDDeath", <<>>) EXCEPT
             !.lastLifeFrame = "DEATH",
             !.isAlive = FALSE]
    ELSE d

\* A refresh that leaves the timer running down.
RefreshDeathTimerNoKick(d) == d

\* #deathTimer.refresh(): restarts the timer, also one that has fired; a timer
\* that clearTimeout() destroyed stays destroyed.
RefreshDeathTimer(d) ==
    IF d.deathTimer.state = "cleared" THEN d
    ELSE [d EXCEPT !.deathTimer = Armed(WatchdogPeriod)]

(***************************************************************************)
(* Driver (DeviceConnection) subscription and write, as the Device calls   *)
(* them.                                                                   *)
(***************************************************************************)
\* DeviceConnection.startSubscription, and its override in OPCUAConnection,
\* which has the session create one more subscription (if there is a session).
StartSubscription(d, interval) ==
    IF d.drv.kind = "OPCUA"
    THEN [d EXCEPT !.drv.subscribed = TRUE,
                   !.drv.subscriptions = IF d.drv.session THEN @ + 1 ELSE @]
    ELSE [d EXCEPT !.leakedTimers = IF d.intHandle.active THEN @ + 1 ELSE @,
                   !.intHandle = Handle(interval),
                   !.drv.subscribed = TRUE]

\* DeviceConnection.stopSubscription; no class overrides it.
StopSubscription(d) == [d EXCEPT !.intHandle = NoHandle, !.drv.subscribed = FALSE]

SubscribeToMetricChanges(d) ==
    LET pollInterval == d.metrics[NameIndex(PollingIntervalName)].value
    IN  StartSubscription(Call(d, "startSubscription", <<pollInterval>>), pollInterval.n)

StopMetricSubscription(d) == StopSubscription(Call(d, "stopSubscription", <<>>))

\* Device.#writeMetrics: the driver is asked to write; its callback runs later.
WriteMetrics(d, ms) ==
    [Call(d, "writeMetrics", ms) EXCEPT !.pendingWrites = Append(@, ms)]

\* Device.#updateConfig: fs.readFile is started; the rewrite happens in its callback.
UpdateConfig(d, value) ==
    [Call(d, "updateConfig", <<value>>) EXCEPT !.pendingConf = Append(@, value)]

(***************************************************************************)
(* Device._handleData(obj, parseVals).                                     *)
(***************************************************************************)
\* The (address, path) pairs in the order the two nested loops visit them.
RECURSIVE PairsOf(_, _)
PairsOf(addr, paths) ==
    IF paths = <<>> THEN <<>>
    ELSE <<[addr |-> addr, path |-> Head(paths)]>> \o PairsOf(addr, Tail(paths))

RECURSIVE Targets(_)
Targets(keys) ==
    IF keys = <<>> THEN <<>>
    ELSE PairsOf(Head(keys), GetPathsForAddr(Head(keys))) \o Targets(Tail(keys))

\* A filter that wants a truthy value.
SensibleTruthy(newVal) == Truthy(newVal)

\* (newVal || newVal == 0)
Sensible(newVal) == Truthy(newVal) \/ LooseEqZero(newVal)

\* a !== b: NaN is not identical to anything, itself included.
StrictNe(a, b) == a # b \/ a = NaN

\* A change filter that lets every value through.
DiffersAlways(old, newVal) == TRUE

\* ((typeof metric.value !== "object") && (metric.value !== newVal))
\*   || !util.isDeepStrictEqual(metric.value, newVal)
Differs(old, newVal) == (~TypeofObject(old) /\ StrictNe(old, newVal)) \/ ~(old = newVal)

Accepts(old, newVal) == Sensible(newVal) /\ Differs(old, newVal)

\* A test that lets every readable metric of the address through.
SelectedAlways(conf, obj, parseVals) == TRUE

\* !parseVals || (parseVals && (path.value || Object.keys(obj).length == 1))
Selected(conf, obj, parseVals) ==
    ~parseVals \/ (parseVals /\ (conf.path # "" \/ Len(ObjKeys(obj)) = 1))

\* The body of the loops: ms is the store so far, changed the indices pushed so far.
RECURSIVE HandleDataLoop(_, _, _, _, _, _)
HandleDataLoop(ms, changed, obj, targets, parseVals, clock) ==
    IF targets = <<>> THEN [metrics |-> ms, changed |-> changed, thrown |-> FALSE]
    ELSE LET addr == Head(targets).addr
             path == Head(targets).path
             i == AddrPathIndex(addr, path)
             conf == MetricConf[i]
             reads == StartsWithGET(conf.method)
             selected == Selected(conf, obj, parseVals)
             newVal == IF parseVals
                       THEN ParseValueFromPayload(obj[addr], conf, PayloadFormat)
                       ELSE obj[addr].v
             timestamp == ParseTimeStampFromPayload(obj[addr], PayloadFormat)
         IN  IF reads /\ selected /\ newVal = Thrown
             THEN [metrics |-> ms, changed |-> changed, thrown |-> TRUE]
             ELSE IF reads /\ selected /\ Accepts(ms[i].value, newVal)
             THEN HandleDataLoop(SetValueByAddrPath(ms, addr, path, newVal, timestamp, clock),
                                 Append(changed, i), obj, Tail(targets), parseVals, clock)
             ELSE HandleDataLoop(ms, changed, obj, Tail(targets), parseVals, clock)

\* The changed metrics are references into the store: name and current value.
MetricRefs(ms, idx) ==
    [j \in 1..Len(idx) |-> [name |-> MetricConf[idx[j]].name, value |-> ms[idx[j]].value]]

HandleData(d, obj, parseVals, clock) ==
    LET r == HandleDataLoop(d.metrics, <<>>, obj, Targets(ObjKeys(obj)), parseVals, clock)
        d1 == [d EXCEPT !.metrics = r.metrics]
        d2 == IF r.changed # <<>>
              THEN PublishDData(d1, MetricRefs(r.metrics, r.changed))
              ELSE d1
    IN  IF r.thrown THEN Call(d1, "throw", <<>>) ELSE RefreshDeathTimer(d2)

ChangedBy(d, obj, parseVals, clock) ==
    LET r == HandleDataLoop(d.metrics, <<>>, obj, Targets(ObjKeys(obj)), parseVals, clock)
    IN  MetricRefs(r.metrics, r.changed)

(***************************************************************************)
(* Device._handleDCmd(payload): payload.metrics is a sequence of           *)
(* [name, value, timestamp] (timestamp 0: none).                           *)
(***************************************************************************)
DCmdPollingInterval(d, metric, clock) ==
    LET d1 == StopMetricSubscription(d)
        d2 == [Call(d1, "setValueByName", <<metric.value>>) EXCEPT
                  !.metrics = SetValueByName(@, metric.name, metric.value,
                                             metric.timestamp, clock)]
        d3 == PublishDData(d2, <<[name |-> metric.name, value |-> metric.value]>>)
        d4 == SubscribeToMetricChanges(d3)
    IN  UpdateConfig(d4, metric.value)

\* A default case that treats every method that starts with GET as read only.
WritablePrefix(name) ==
    LET i == NameIndex(name)
    IN  i # 0 /\ ~StartsWithGET(MetricConf[i].method)

\* The default case: is the target queued for writing?
Writable(name) ==
    LET i == NameIndex(name)
    IN  i # 0 /\ MetricConf[i].method # MGet

RECURSIVE DCmdLoop(_, _, _, _)
DCmdLoop(d, payload, metricsToWrite, clock) ==
    IF payload = <<>>
    THEN IF metricsToWrite # <<>> THEN WriteMetrics(d, metricsToWrite) ELSE d
    ELSE LET metric == Head(payload)
             rest == Tail(payload)
             target == <<[name |-> metric.name, value |-> metric.value]>>
             d0 == Call(d, "log DCMD", target)
         IN  CASE metric.name = "" ->
                    \* Only an alias: no alias is known to the device's store
                    \* (nothing calls setAlias), getByAlias gives undefined and
                    \* reading .name of it throws out of the handler.
                    Call(d, "throw", <<>>)
               [] metric.name = RebootName ->
                    DCmdLoop(d0, rest, metricsToWrite, clock)
               [] metric.name = RebirthName ->
                    DCmdLoop(IF Truthy(metric.value) THEN PublishDBirth(d0, FALSE) ELSE d0,
                             rest, metricsToWrite, clock)
               [] metric.name = PollingIntervalName ->
                    DCmdLoop(DCmdPollingInterval(d0, metric, clock), rest, metricsToWrite, clock)
               [] OTHER ->
                    IF Writable(metric.name)
                    THEN DCmdLoop(d0, rest, metricsToWrite \o target, clock)
                    ELSE DCmdLoop(Call(d0, "log read only", target), rest,
                                  metricsToWrite, clock)

HandleDCmd(d, payload, clock) == DCmdLoop(d, payload, <<>>, clock)

(***************************************************************************)
(* The callback Device.#writeMetrics gives the driver.                     *)
(***************************************************************************)
RECURSIVE MirrorWritten(_, _, _)
MirrorWritten(ms, written, clock) ==
    IF written = <<>> THEN ms
    ELSE MirrorWritten(SetValueByName(ms, Head(written).name, Head(written).value, 0, clock),
                       Tail(written), clock)

\* A callback that takes every outcome of the write for a success.
WriteCallbackBodyDeaf(d, written, err, clock) ==
    LET ms == MirrorWritten(d.metrics, written, clock)
        refs == [j \in 1..Len(written) |->
                   [name |-> written[j].name,
                    value |-> ms[NameIndex(written[j].name)].value]]
    IN  RefreshDeathTimer(PublishDData([d EXCEPT !.metrics = ms], refs))

WriteCallbackBody(d, written, err, clock) ==
    IF ~err
    THEN LET ms == MirrorWritten(d.metrics, written, clock)
             refs == [j \in 1..Len(written) |->
                        [name |-> written[j].name,
                         value |-> ms[NameIndex(written[j].name)].value]]
         IN  RefreshDeathTimer(PublishDData([d EXCEPT !.metrics = ms], refs))
    ELSE d

(***************************************************************************)
(* Inputs.                                                                 *)
(***************************************************************************)
ObjOf(x, y) == [a \in {"a1", "a2"} |-> IF a = "a1" THEN x ELSE y]

\* Data events of the device's life cycle: the value at a1 alternates; the
\* document carries the device's own timestamp.
LifeObjs == {ObjOf(Doc(Str(<<"1">>), StartTime), NoDoc),
             ObjOf(Doc(Str(<<"2">>), StartTime), NoDoc)}

\* Data events in general: numbers, numeric and non-numeric strings or no value
\* at a1, with or without a timestamp; the empty object; two addresses at once.
RawValues == {Num(1), Str(<<"1">>), Str(<<"2">>), Str(<<"x">>)}
PayloadTimestamps == {0, StartTime}
DocsA1 == {NoDoc} \cup {Doc(v, t) : v \in RawValues, t \in PayloadTimestamps}
DocsA2 == {NoDoc, Doc(Str(<<"2">>), StartTime)}
DataObjs == {ObjOf(x, NoDoc) : x \in DocsA1} \cup {ObjOf(Doc(Str(<<"1">>), 0), y) : y \in DocsA2}

CmdMetric(name, value) == [name |-> name, value |-> value, timestamp |-> 0]

\* Commands of the device's life cycle.
LifeCmds == {CmdMetric(RebirthName, Bool(TRUE)), CmdMetric(RebirthName, Bool(FALSE))}

\* Commands that write to the device.
WriteCmds == {CmdMetric("Setpoint", Num(7))}

\* A command that carries an alias and no name.
AliasOnlyCmd == CmdMetric("", Num(7))

\* Commands in general.
CmdMetrics ==
    { CmdMetric(RebootName, Bool(TRUE)),
      CmdMetric(RebirthName, Bool(TRUE)),
      CmdMetric("Unknown", Num(7)),
      CmdMetric(PollingIntervalName, Num(NewPollInt)),
      CmdMetric("Temp", Num(7)),
      CmdMetric("Mode", Num(7)),
      CmdMetric("Setpoint", Num(7)) }

\* Payloads of one command.
Single(S) == {<<m>> : m \in S}

\* Payloads in general: one command, or two of them in one payload.
CmdPayloads ==
    Single(CmdMetrics) \cup
    { <<CmdMetric("Setpoint", Num(7)), CmdMetric(PollingIntervalName, Num(NewPollInt))>>,
      <<CmdMetric("Mode", Num(7)), CmdMetric("Setpoint", Num(7))>> }

(***************************************************************************)
(* Actions.                                                                *)
(***************************************************************************)
\* The state after the constructors of the connection and of its device. The
\* ASCIITCPDevice constructor sets _isConnected itself.
InitWith(kind) ==
    /\ isConnected = (kind = "ASCIITCP")
    /\ isAlive = FALSE
    /\ pendingBirths = 0
    /\ metrics = InitMetrics
    /\ deathTimer = Armed(WatchdogPeriod)
    /\ readyInterval = TRUE
    /\ intHandle = NoHandle
    /\ leakedTimers = 0
    /\ lastLifeFrame = "none"
    /\ pendingWrites = <<>>
    /\ pendingConf = <<>>
    /\ confPollInt = InitPollInt
    /\ now = StartTime
    /\ calls = <<>>
    /\ prevObj = NoPrevObj
    /\ sinceRefresh = 0
    /\ lateRefresh = FALSE
    /\ quiet = 0
    /\ drv = NewDriver(kind)

\* The Translator after its constructor: nothing fetched, nothing built.
NoIds == [defined |-> FALSE, uuid |-> "", sparkplug |-> ""]
NoConf == [defined |-> FALSE, valid |-> FALSE, deviceConnections |-> <<>>]
ConnTypes == {"S7", "OPC UA", "Modbus"}
DeviceIds == {"d1", "d2"}

NewTranslator ==
    [pc |-> "new", ids |-> NoIds, conf |-> NoConf, attempts |-> 0, sleep |-> 0,
     node |-> FALSE, nodeStopped |-> FALSE, handlers |-> FALSE,
     next |-> 1, connections |-> [t \in ConnTypes |-> 0], devices |-> [id \in DeviceIds |-> 0],
     made |-> {}, madeDevices |-> {}, opened |-> {}, closed |-> {}, stoppedDevs |-> {},
     caught |-> FALSE, trace |-> <<>>, delivery |-> [conn |-> 0, devs |-> {}],
     closing |-> {}, closeEmitted |-> {}]

Init == InitWith("DeviceConnection") /\ tr = NewTranslator /\ codec = NewCodec /\ file = NewFile /\ ascii = NewASCII /\ tag = NewTag /\ store = DeviceStore

\* The handler's result becomes the state, within the bounds of the model.
Commit(d) ==
    /\ d.pendingBirths <= MaxPendingBirths
    /\ Len(d.pendingWrites) <= MaxPendingWrites
    /\ d.leakedTimers <= MaxLeakedTimers
    /\ Len(d.pendingConf) <= MaxPendingConf
    /\ d.drv.subscriptions <= MaxSubscriptions
    /\ Len(d.drv.writes) <= MaxDriverWrites
    /\ isConnected' = d.isConnected
    /\ isAlive' = d.isAlive
    /\ pendingBirths' = d.pendingBirths
    /\ metrics' = d.metrics
    /\ deathTimer' = d.deathTimer
    /\ intHandle' = d.intHandle
    /\ leakedTimers' = d.leakedTimers
    /\ lastLifeFrame' = d.lastLifeFrame
    /\ pendingWrites' = d.pendingWrites
    /\ pendingConf' = d.pendingConf
    /\ drv' = d.drv
    /\ calls' = d.calls

\* Bookkeeping of a handler other than a data event.
Ran(refreshes) ==
    /\ prevObj' = NoPrevObj
    /\ sinceRefresh' = IF refreshes THEN 0 ELSE sinceRefresh
    /\ quiet' = IF ~refreshes /\ isConnected' /\ isAlive' THEN quiet ELSE 0
    /\ UNCHANGED <<now, lateRefresh, tr, store, codec, file, ascii, tag>>

\* The driver emits open: Translator calls _deviceConnected.
DeviceConnected ==
    /\ Commit(PublishDBirth([Self EXCEPT !.isConnected = TRUE], FALSE))
    /\ Ran(FALSE)
    /\ UNCHANGED <<readyInterval, confPollInt>>

\* The driver emits close: Translator calls _deviceDisconnected.
DeviceDisconnected ==
    /\ Commit([PublishDDeath(Self) EXCEPT !.isConnected = FALSE])
    /\ Ran(FALSE)
    /\ UNCHANGED <<readyInterval, confPollInt>>

\* The handler of the step ended with an exception.
Threw == calls' # <<>> /\ calls'[Len(calls')].op = "throw"

\* The driver emits data(obj): Translator calls _handleData(obj, true).
DataEvent(obj) ==
    /\ Commit(HandleData(Self, obj, TRUE, now))
    /\ prevObj' = [isData |-> TRUE, obj |-> obj,
                    same |-> prevObj.isData /\ SameValues(prevObj.obj, obj)]
    /\ sinceRefresh' = IF Threw THEN sinceRefresh ELSE 0
    /\ quiet' = IF Threw THEN quiet ELSE 0
    /\ UNCHANGED <<now, lateRefresh, readyInterval, confPollInt, tr, store, codec, file, ascii, tag>>

\* The driver emits data(obj, false): Translator calls _handleData(obj, false);
\* the values of obj are taken as they are.
DataEventRaw(obj) ==
    /\ Commit(HandleData(Self, obj, FALSE, now))
    /\ prevObj' = [isData |-> TRUE, obj |-> obj,
                    same |-> prevObj.isData /\ SameValues(prevObj.obj, obj)]
    /\ sinceRefresh' = 0
    /\ quiet' = 0
    /\ UNCHANGED <<now, lateRefresh, readyInterval, confPollInt, tr, store, codec, file, ascii, tag>>

\* The node emits dcmd for this device.
DCmd(payload) ==
    /\ Commit(HandleDCmd(Self, payload, now))
    /\ Ran(FALSE)
    /\ UNCHANGED <<readyInterval, confPollInt>>

\* The node emits dbirth (or dbirth-all): Translator calls _publishDBirth().
DBirthRequest ==
    /\ Commit(PublishDBirth(Self, FALSE))
    /\ Ran(FALSE)
    /\ UNCHANGED <<readyInterval, confPollInt>>

\* publishDBirth(...).then(() => { this.#isAlive = true })
BirthPublished ==
    /\ pendingBirths > 0
    /\ Commit([Self EXCEPT !.pendingBirths = @ - 1, !.isAlive = TRUE])
    /\ Ran(FALSE)
    /\ UNCHANGED <<readyInterval, confPollInt>>

\* The driver invokes the write callback, with or without an error.
WriteCallback(err) ==
    /\ pendingWrites # <<>>
    /\ Commit(WriteCallbackBody([Self EXCEPT !.pendingWrites = Tail(@)],
                                Head(pendingWrites), err, now))
    /\ Ran(~err)
    /\ UNCHANGED <<readyInterval, confPollInt>>

\* The watchdog set up by the constructor runs out.
WatchdogExpires ==
    /\ deathTimer.state = "armed"
    /\ deathTimer.left = 0
    /\ Commit(PublishDDeath([Self EXCEPT !.deathTimer = Fired]))
    /\ Ran(FALSE)
    /\ UNCHANGED <<readyInterval, confPollInt>>

\* A readiness poll that subscribes and stays installed.
ReadyPollKeeps ==
    /\ readyInterval
    /\ isConnected
    /\ Commit(SubscribeToMetricChanges(Self))
    /\ Ran(FALSE)
    /\ UNCHANGED <<readyInterval, confPollInt>>

\* The constructor's readiness poll finds _isConnected set.
ReadyPoll ==
    /\ readyInterval
    /\ isConnected
    /\ Commit(SubscribeToMetricChanges(Self))
    /\ readyInterval' = FALSE
    /\ Ran(FALSE)
    /\ UNCHANGED confPollInt

\* Device.stop()
Stop ==
    /\ Commit([StopMetricSubscription(Self) EXCEPT !.deathTimer = Cleared])
    /\ Ran(FALSE)
    /\ UNCHANGED <<readyInterval, confPollInt>>

\* The callbacks of #updateConfig rewrite the file.
ConfigWritten ==
    /\ pendingConf # <<>>
    /\ Commit([Self EXCEPT !.pendingConf = Tail(@)])
    /\ confPollInt' = Head(pendingConf).n
    /\ Ran(FALSE)
    /\ UNCHANGED readyInterval

\* Time passes; a timer that is due runs before more time passes.
Tick ==
    /\ now < MaxTime
    /\ deathTimer.state = "armed" => deathTimer.left > 0
    /\ now' = now + TickMs
    /\ deathTimer' = IF deathTimer.state = "armed"
                     THEN Armed(IF deathTimer.left > TickMs THEN deathTimer.left - TickMs ELSE 0)
                     ELSE deathTimer
    /\ sinceRefresh' = Min(sinceRefresh + TickMs, WatchdogPeriod)
    /\ lateRefresh' = (lateRefresh \/ sinceRefresh + TickMs >= WatchdogPeriod)
    /\ quiet' = IF isConnected /\ isAlive THEN Min(quiet + TickMs, WatchdogPeriod) ELSE 0
    /\ calls' = <<>>
    /\ UNCHANGED <<isConnected, isAlive, pendingBirths, metrics, readyInterval, intHandle,
                   leakedTimers, lastLifeFrame, pendingWrites, pendingConf, confPollInt,
                   prevObj, drv, tr, store, codec, file, ascii, tag>>

(***************************************************************************)
(* The drivers: what each DeviceConnection class does when it is opened,   *)
(* closed, read by a timer, notified by the server, or asked to write.     *)
(***************************************************************************)
\* Values as the S7 and OPC UA drivers deliver them: data(obj, false).
RawObjs == {ObjOf(Doc(Num(1), 0), NoDoc), ObjOf(Doc(Num(2), 0), NoDoc)}

\* this.emit('data', {}) of the Open Protocol driver.
EmptyObj == ObjOf(NoDoc, NoDoc)

\* What a call of readMetrics can emit, by class.
ReadResults(kind) == IF kind = "S7" THEN RawObjs ELSE {EmptyObj}

\* Does readMetrics of this class emit a data event (payload format JSON)?
ReadEmits(kind) == kind \in {"S7", "OpenProtocol"}

\* readMetrics of the class, as the interval timer of startSubscription calls
\* it, with the data event it emits handled by the device. The base class
\* emits nothing, the ASCII TCP driver only logs for a format other than
\* ASCII HEX, and OPCUAConnection starts no timer.
ReadMetrics(d, obj, clock) ==
    LET d1 == Call(d, "readMetrics", <<>>)
    IN  CASE d.drv.kind = "S7" -> HandleData(Call(d1, "emit data", <<>>), obj, FALSE, clock)
          [] d.drv.kind = "OpenProtocol" -> HandleData(Call(d1, "emit data", <<>>), EmptyObj, TRUE, clock)
          [] OTHER -> d1

\* Does close() of the class emit close? ok: the OPC UA session and client
\* close without throwing.
CloseEmits(dr, ok) ==
    CASE dr.kind \in {"DeviceConnection", "ASCIITCP"} -> TRUE
      [] dr.kind = "S7" -> dr.linked
      [] dr.kind = "OPCUA" -> ok
      [] OTHER -> FALSE

\* The entry writeMetrics(metrics, cb) leaves behind when it returns.
WriteStarted(dr) ==
    CASE dr.kind = "S7" -> [awaiting |-> FALSE, cbs |-> 0]
      [] dr.kind = "OPCUA" -> [awaiting |-> TRUE, cbs |-> 0]
      [] OTHER -> [awaiting |-> FALSE, cbs |-> 1]

WriteOutcomes == {"good", "bad", "rejected"}

\* OPCUAConnection.writeMetrics after the await: without a session the status
\* is [-1]; a rejected session.write leaves the function by the exception.
WriteSettled(dr, w, outcome) ==
    IF dr.session /\ outcome = "rejected"
    THEN [awaiting |-> FALSE, cbs |-> w.cbs]
    ELSE [awaiting |-> FALSE, cbs |-> w.cbs + 1]

\* The first write that still awaits the server, or 0.
RECURSIVE FirstAwaiting(_, _)
FirstAwaiting(ws, i) ==
    IF i > Len(ws) THEN 0
    ELSE IF ws[i].awaiting THEN i ELSE FirstAwaiting(ws, i + 1)

\* Bookkeeping of a handler that is a data event if emits holds.
RanData(emits, obj) ==
    /\ prevObj' = IF emits
                  THEN [isData |-> TRUE, obj |-> obj,
                        same |-> prevObj.isData /\ SameValues(prevObj.obj, obj)]
                  ELSE NoPrevObj
    /\ sinceRefresh' = IF emits THEN 0 ELSE sinceRefresh
    /\ quiet' = IF ~emits /\ isConnected' /\ isAlive' THEN quiet ELSE 0
    /\ UNCHANGED <<now, lateRefresh, tr, store, codec, file, ascii, tag>>

\* open() of the connection has succeeded and emits open (S7: whenever the
\* endpoint connects): Translator calls _deviceConnected.
DrvOpen ==
    /\ IF drv.kind = "S7" THEN ~drv.linked ELSE ~drv.opened
    /\ Commit(PublishDBirth([Self EXCEPT !.isConnected = TRUE,
                                         !.drv.opened = TRUE,
                                         !.drv.closed = FALSE,
                                         !.drv.session = (drv.kind = "OPCUA"),
                                         !.drv.linked = (drv.kind = "S7")], FALSE))
    /\ Ran(FALSE)
    /\ UNCHANGED <<readyInterval, confPollInt>>

\* close() of the connection is called; if the class emits close, Translator
\* calls _deviceDisconnected.
DrvClose(ok) ==
    /\ drv.kind # "OPCUA" => ok
    /\ LET d0 == [Call(Self, "close", <<>>) EXCEPT !.drv.closed = TRUE, !.drv.linked = FALSE]
       IN  Commit(IF CloseEmits(drv, ok)
                  THEN [PublishDDeath(Call(d0, "emit close", <<>>)) EXCEPT !.isConnected = FALSE]
                  ELSE d0)
    /\ Ran(FALSE)
    /\ UNCHANGED <<readyInterval, confPollInt>>

\* An interval timer of startSubscription fires: the current one, or one whose
\* handle has been overwritten.
PeriodicRead(obj) ==
    /\ intHandle.active \/ leakedTimers > 0
    /\ Commit(ReadMetrics(Self, obj, now))
    /\ RanData(ReadEmits(drv.kind), obj)
    /\ UNCHANGED <<readyInterval, confPollInt>>

\* A monitored item of an OPC UA subscription changes: data(changedMetrics, false).
SubscriptionData(obj) ==
    /\ drv.subscriptions > 0
    /\ Commit(HandleData(Call(Self, "emit data", <<>>), obj, FALSE, now))
    /\ RanData(TRUE, obj)
    /\ UNCHANGED <<readyInterval, confPollInt>>

\* The device calls writeMetrics(metrics, cb) of the connection.
DrvWriteMetrics ==
    /\ Commit([Self EXCEPT !.drv.writes = Append(@, WriteStarted(drv))])
    /\ Ran(FALSE)
    /\ UNCHANGED <<readyInterval, confPollInt>>

\* await this.#session.write(items) settles.
DrvWriteSettled(outcome) ==
    /\ FirstAwaiting(drv.writes, 1) # 0
    /\ LET i == FirstAwaiting(drv.writes, 1)
       IN  Commit([Self EXCEPT !.drv.writes[i] = WriteSettled(drv, @, outcome)])
    /\ Ran(FALSE)
    /\ UNCHANGED <<readyInterval, confPollInt>>

InitDriver == \E kind \in DriverKinds : InitWith(kind) /\ tr = NewTranslator /\ codec = NewCodec /\ file = NewFile /\ ascii = NewASCII /\ tag = NewTag /\ store = DeviceStore

\* A device on a connection of any class: opening and closing, subscriptions
\* and the reads they cause.
NextDriver ==
    \/ DrvOpen
    \/ \E ok \in BOOLEAN : DrvClose(ok)
    \/ BirthPublished
    \/ ReadyPoll
    \/ \E payload \in Single({CmdMetric(PollingIntervalName, Num(NewPollInt))}) : DCmd(payload)
    \/ ConfigWritten
    \/ Stop
    \/ \E obj \in ReadResults(drv.kind) : PeriodicRead(obj)
    \/ \E obj \in RawObjs : SubscriptionData(obj)

SpecDriver == InitDriver /\ [][NextDriver]_vars

\* Writes on a connection of any class, open or not.
NextWrite ==
    \/ DrvOpen
    \/ \E ok \in BOOLEAN : DrvClose(ok)
    \/ BirthPublished
    \/ DrvWriteMetrics
    \/ \E outcome \in WriteOutcomes : DrvWriteSettled(outcome)

SpecWrite == InitDriver /\ [][NextWrite]_vars

\* Device.stop() at any moment of a device on the timer implementation: before
\* or after the connection opens, with data events and time going on.
NextStop ==
    \/ DeviceConnected
    \/ BirthPublished
    \/ ReadyPoll
    \/ \E payload \in Single({CmdMetric(PollingIntervalName, Num(NewPollInt))}) : DCmd(payload)
    \/ ConfigWritten
    \/ Stop
    \/ \E obj \in LifeObjs : DataEvent(obj)
    \/ \E obj \in ReadResults(drv.kind) : PeriodicRead(obj)
    \/ WatchdogExpires
    \/ Tick

SpecStop == Init /\ [][NextStop]_vars

(***************************************************************************)
(* Translator: start(), the retry helper, setupConnection, stop().  In tr,  *)
(* a connection object is named by the position of its declaration in      *)
(* conf.deviceConnections and a device object by that position and its     *)
(* deviceId; 0 stands for undefined.                                       *)
(***************************************************************************)
Ids(uuid, sparkplug) == [defined |-> TRUE, uuid |-> uuid, sparkplug |-> sparkplug]

\* What auth.find_principal() can resolve to: nothing, or identities with or
\* without a UUID and a Sparkplug address.
IdResponses == {NoIds, Ids("", "n1"), Ids("u1", ""), Ids("u1", "n1"), Ids("u2", "n2")}

Conn(connType, deviceId) == [connType |-> connType, deviceId |-> deviceId]
Conf(valid, conns) == [defined |-> TRUE, valid |-> valid, deviceConnections |-> conns]

\* What cdb.get_config() can resolve to: nothing, a document that does not
\* validate, or a valid one: no connection, one, two of different types, two
\* of the same type, one of a type chooseDeviceInfo does not know, two whose
\* devices have the same deviceId.
ConfResponses ==
    {NoConf,
     Conf(FALSE, <<Conn("S7", "d1")>>),
     Conf(TRUE, <<>>),
     Conf(TRUE, <<Conn("S7", "d1")>>),
     Conf(TRUE, <<Conn("S7", "d1"), Conn("OPC UA", "d2")>>),
     Conf(TRUE, <<Conn("S7", "d1"), Conn("S7", "d2")>>),
     Conf(TRUE, <<Conn("Modbus", "d1"), Conn("S7", "d2")>>),
     Conf(TRUE, <<Conn("S7", "d1"), Conn("OPC UA", "d1")>>)}

\* The probe of fetchIdentities: if (!ids || !ids.uuid || !ids.sparkplug) return;
IdProbe(resp) ==
    IF ~resp.defined \/ resp.uuid = "" \/ resp.sparkplug = "" THEN NoIds ELSE resp

\* The probe of fetchConfig: if (!config || !validateConfig(config)) return;
ConfProbe(resp) == IF ~resp.defined \/ ~resp.valid THEN NoConf ELSE resp

\* A retry helper that takes whatever the probe returns.
RetryReturnsAny(rv) == TRUE

\* if (rv != undefined) return rv;
RetryReturns(rv) == rv.defined

\* chooseDeviceInfo(cType) == undefined
UnknownConnType(connType) == connType \notin {"REST", "MTConnect", "S7", "OPC UA", "MQTT", "Websocket", "UDP"}

\* The catch block of start(): log, then stop().
Caught(t) == [t EXCEPT !.caught = TRUE, !.pc = "stopDevices"]

\* One round of the loop of retry(what, fetch) whose probe returned rv: return
\* it to the caller, or sleep interval * 1000 ms (attempts counts the rounds
\* that ended in a sleep).
Retry(t, rv, waiting) ==
    IF RetryReturns(rv)
    THEN t
    ELSE [t EXCEPT !.attempts = @ + 1, !.sleep = PollInt * 1000, !.pc = waiting]

deviceVars == <<isConnected, isAlive, pendingBirths, metrics, deathTimer, readyInterval,
                intHandle, leakedTimers, lastLifeFrame, pendingWrites, pendingConf,
                confPollInt, now, calls, prevObj, sinceRefresh, lateRefresh, quiet, drv>>

\* start() is called.
TrStart ==
    /\ tr.pc = "new"
    /\ tr' = [tr EXCEPT !.pc = "fetchIds"]
    /\ UNCHANGED <<deviceVars, store, codec, file, ascii, tag>>

\* retry("identities", ...): one attempt. The call of the Auth service either
\* rejects, and the exception reaches the catch block of start(), or resolves
\* to resp.
TrFetchIdentities(resp, rejects) ==
    /\ tr.pc = "fetchIds"
    /\ tr' = IF rejects THEN Caught(tr)
             ELSE LET rv == IdProbe(resp)
                      t == Retry(tr, rv, "waitIds")
                  IN  IF RetryReturns(rv) THEN [t EXCEPT !.ids = rv, !.pc = "fetchConf"] ELSE t
    /\ tr'.attempts <= MaxAttempts
    /\ UNCHANGED <<deviceVars, store, codec, file, ascii, tag>>

\* retry("config", ...): one attempt; with the config returned, start() goes
\* on to new SparkplugNode(...) and to the connections.
TrFetchConfig(resp, rejects) ==
    /\ tr.pc = "fetchConf"
    /\ tr' = IF rejects THEN Caught(tr)
             ELSE LET rv == ConfProbe(resp)
                      t == Retry(tr, rv, "waitConf")
                  IN  IF RetryReturns(rv)
                      THEN [t EXCEPT !.conf = rv, !.node = TRUE, !.pc = "setup"]
                      ELSE t
    /\ tr'.attempts <= MaxAttempts
    /\ UNCHANGED <<deviceVars, store, codec, file, ascii, tag>>

\* await timers.setTimeout(interval * 1000) is over: the loop goes round.
TrRetryWait ==
    /\ tr.pc \in {"waitIds", "waitConf"}
    /\ tr' = [tr EXCEPT !.sleep = 0, !.pc = IF tr.pc = "waitIds" THEN "fetchIds" ELSE "fetchConf"]
    /\ UNCHANGED <<deviceVars, store, codec, file, ascii, tag>>

SetupOutcomes == {"ok", "connection throws", "device throws"}

\* setupConnection(c) for the next declared connection c; the constructor of
\* the connection or of its device may throw.
SetupConnection(t, outcome) ==
    LET n == t.next
        c == t.conf.deviceConnections[n]
        t1 == [t EXCEPT !.connections[c.connType] = n, !.made = @ \cup {n}]
        t2 == [t1 EXCEPT !.devices[c.deviceId] = n, !.madeDevices = @ \cup {<<n, c.deviceId>>}]
    IN  CASE UnknownConnType(c.connType) -> [t EXCEPT !.next = n + 1]
          [] outcome = "connection throws" -> Caught(t)
          [] outcome = "device throws" -> Caught(t1)
          [] OTHER -> [t2 EXCEPT !.opened = @ \cup {n}, !.next = n + 1]

TrSetupConnection(outcome) ==
    /\ tr.pc = "setup"
    /\ tr.next <= Len(tr.conf.deviceConnections)
    /\ UnknownConnType(tr.conf.deviceConnections[tr.next].connType) => outcome = "ok"
    /\ tr' = SetupConnection(tr, outcome)
    /\ UNCHANGED <<deviceVars, store, codec, file, ascii, tag>>

\* The connection built by the n-th setupConnection emits open, data or
\* close: its handlers call this.devices[devConf.deviceId]?.<handler>() for
\* the devices of its configuration. A device is known by the setupConnection
\* that constructed it and its deviceId.
TrConnectionEvent(n) ==
    /\ n \in tr.opened
    /\ LET id == tr.conf.deviceConnections[n].deviceId
       IN  tr' = [tr EXCEPT !.delivery =
                      [conn |-> n,
                       devs |-> IF tr.devices[id] # 0 THEN {<<tr.devices[id], id>>} ELSE {}]]
    /\ UNCHANGED <<deviceVars, store, codec, file, ascii, tag>>

\* setupSparkplug(), after the last connection: start() is done.
TrSetupSparkplug ==
    /\ tr.pc = "setup"
    /\ tr.next > Len(tr.conf.deviceConnections)
    /\ tr' = [tr EXCEPT !.handlers = TRUE, !.pc = "running"]
    /\ UNCHANGED <<deviceVars, store, codec, file, ascii, tag>>

\* The node emits stop: the handler calls stop().
TrNodeStop ==
    /\ tr.pc = "running"
    /\ tr.handlers
    /\ tr' = [tr EXCEPT !.pc = "stopDevices"]
    /\ UNCHANGED <<deviceVars, store, codec, file, ascii, tag>>

\* stop(): dev.stop() for every value of this.devices.
TrStopDevices ==
    /\ tr.pc = "stopDevices"
    /\ tr' = [tr EXCEPT !.stoppedDevs = @ \cup {<<tr.devices[id], id>> : id \in {x \in DeviceIds : tr.devices[x] # 0}},
                        !.trace = Append(@, "devices"),
                        !.pc = "closeConnections"]
    /\ UNCHANGED <<deviceVars, store, codec, file, ascii, tag>>

\* OPCUAConnection.close() awaits session.close() and client.disconnect()
\* before it emits 'close'; ASCIITCPConnection.close() emits it before it
\* returns, and so do the drivers modelled after it.
AsyncClose(connType) == connType = "OPC UA"

\* stop(): connection.close() for every value of this.connections. The
\* callback of the map returns nothing, so no close() is awaited.
TrCloseConnections ==
    /\ tr.pc = "closeConnections"
    /\ tr' = [tr EXCEPT !.closed = @ \cup {tr.connections[t] : t \in {x \in ConnTypes : tr.connections[x] # 0}},
                        !.closing = {tr.connections[t] : t \in {x \in ConnTypes : tr.connections[x] # 0 /\ AsyncClose(x)}},
                        !.closeEmitted = {tr.connections[t] : t \in {x \in ConnTypes : tr.connections[x] # 0 /\ ~AsyncClose(x)}},
                        !.trace = Append(@, "connections"),
                        !.pc = "stopNode"]
    /\ UNCHANGED <<deviceVars, store, codec, file, ascii, tag>>

\* The awaits of an asynchronous close() are over: it emits 'close'.
TrCloseCompletes(n) ==
    /\ n \in tr.closing
    /\ tr' = [tr EXCEPT !.closing = @ \ {n}, !.closeEmitted = @ \cup {n}]
    /\ UNCHANGED <<deviceVars, store, codec, file, ascii, tag>>

\* stop(): await this.sparkplugNode?.stop()
TrStopNode ==
    /\ tr.pc = "stopNode"
    /\ tr' = [tr EXCEPT !.nodeStopped = tr.node,
                        !.trace = Append(@, "node"),
                        !.pc = "emitStopped"]
    /\ UNCHANGED <<deviceVars, store, codec, file, ascii, tag>>

\* stop(): this.emit('stopped', kill)
TrEmitStopped ==
    /\ tr.pc = "emitStopped"
    /\ tr' = [tr EXCEPT !.trace = Append(@, "stopped"), !.pc = "stopped"]
    /\ UNCHANGED <<deviceVars, store, codec, file, ascii, tag>>

NextTranslator ==
    \/ TrStart
    \/ \E resp \in IdResponses, rejects \in BOOLEAN : TrFetchIdentities(resp, rejects)
    \/ \E resp \in ConfResponses, rejects \in BOOLEAN : TrFetchConfig(resp, rejects)
    \/ TrRetryWait
    \/ \E outcome \in SetupOutcomes : TrSetupConnection(outcome)
    \/ \E n \in tr.opened : TrConnectionEvent(n)
    \/ TrSetupSparkplug
    \/ TrNodeStop
    \/ TrStopDevices
    \/ TrCloseConnections
    \/ \E n \in tr.closing : TrCloseCompletes(n)
    \/ TrStopNode
    \/ TrEmitStopped

SpecTranslator == Init /\ [][NextTranslator]_vars

\* add(metrics) on the store.
StoreAdd(ms) ==
    /\ Len(store.array) + Len(ms) <= MaxMetrics
    /\ store' = MetricsAdd(store, ms)
    /\ UNCHANGED <<deviceVars, tr, codec, file, ascii, tag>>

\* The aliases a Sparkplug node hands out.
Aliases == {1, 2}

\* setAlias(index, alias) on the store, for a metric of the store.
StoreSetAlias(index, alias) ==
    /\ index \in 1..Len(store.array)
    /\ store' = MetricsSetAlias(store, index, alias)
    /\ UNCHANGED <<deviceVars, tr, codec, file, ascii, tag>>

InitStore ==
    /\ InitWith("DeviceConnection")
    /\ tr = NewTranslator /\ codec = NewCodec /\ file = NewFile /\ ascii = NewASCII /\ tag = NewTag
    /\ \E ms \in Batches : store = MetricsNew(ms)

\* A Metrics object built from any array and grown by any sequence of add()
\* of at least one metric, up to MaxMetrics metrics.
NextStore == \E ms \in Batches \ {<<>>} : StoreAdd(ms)

SpecStore == InitStore /\ [][NextStore]_vars

\* The store of a device (its default metrics come first, here one without a
\* method) whose metrics are given aliases while add() goes on.
AliasBatches == {<<Metric("F", NoMethod, "", "")>>, <<Metric("A", MGet, "a1", "$.v")>>,
                 <<Metric("C", MPut, "a1", "$.v")>>}

InitAlias ==
    /\ InitWith("DeviceConnection")
    /\ tr = NewTranslator /\ codec = NewCodec /\ file = NewFile /\ ascii = NewASCII /\ tag = NewTag
    /\ store = MetricsNew(<<Metric("F", NoMethod, "", "")>>)

NextAlias ==
    \/ \E ms \in AliasBatches : StoreAdd(ms)
    \/ \E index \in 1..MaxMetrics, alias \in Aliases : StoreSetAlias(index, alias)

SpecAlias == InitAlias /\ [][NextAlias]_vars

(***************************************************************************)
(* The setters of the device's store, called with any value.               *)
(***************************************************************************)
SetterValues == {Num(1), Null, Undef}
SetterStamps == {0, StartTime + 1}

\* What a setter returns: the metric it has written, by name and value.
Returned(ms, i) == Called("return", <<[name |-> MetricConf[i].name, value |-> ms[i].value]>>)

notMetrics == <<isConnected, isAlive, pendingBirths, deathTimer, readyInterval, intHandle,
                leakedTimers, lastLifeFrame, pendingWrites, pendingConf, confPollInt, now,
                prevObj, sinceRefresh, lateRefresh, quiet, drv, tr, store, codec, file, ascii, tag>>

\* setValueByName(name, value, timestamp)
SetterByName(name, value, timestamp) ==
    /\ NameIndex(name) # 0
    /\ metrics' = SetValueByName(metrics, name, value, timestamp, now)
    /\ calls' = <<Returned(metrics', NameIndex(name))>>
    /\ UNCHANGED notMetrics

\* setValueByAddrPath(addr, path, value, timestamp)
SetterByAddrPath(addr, path, value, timestamp) ==
    /\ AddrPathIndex(addr, path) # 0
    /\ metrics' = SetValueByAddrPath(metrics, addr, path, value, timestamp, now)
    /\ calls' = <<Returned(metrics', AddrPathIndex(addr, path))>>
    /\ UNCHANGED notMetrics

\* setValueByAlias(alias, value, timestamp)
SetterByAlias(alias, value, timestamp) ==
    /\ MetricsGetByAlias(store, alias) # 0
    /\ metrics' = SetValueByIndex(metrics, MetricsGetByAlias(store, alias), value, timestamp, now)
    /\ calls' = <<Returned(metrics', MetricsGetByAlias(store, alias))>>
    /\ UNCHANGED notMetrics

\* The device's store with an alias for Setpoint.
InitSetters ==
    /\ InitWith("DeviceConnection")
    /\ tr = NewTranslator /\ codec = NewCodec /\ file = NewFile /\ ascii = NewASCII /\ tag = NewTag
    /\ store = MetricsSetAlias(DeviceStore, NameIndex("Setpoint"), 2)

NextSetters ==
    \/ \E name \in {"Temp", PollingIntervalName}, v \in SetterValues, t \in SetterStamps :
          SetterByName(name, v, t)
    \/ \E v \in SetterValues, t \in SetterStamps : SetterByAddrPath("a2", "$.v", v, t)
    \/ \E v \in SetterValues, t \in SetterStamps : SetterByAlias(2, v, t)

SpecSetters == InitSetters /\ [][NextSetters]_vars

(***************************************************************************)
(* Decoding fixed buffers: parseValueFromPayload's fixedBuffer case hands   *)
(* the raw buffer of an address to parseValFromBuffer, once for every       *)
(* metric read from that address.                                          *)
(***************************************************************************)
ParseFixedBuffer(type, endianness, byteAddr) ==
    /\ LET r == parseValFromBuffer(type, endianness, byteAddr, codec.buf)
       IN  codec' = [codec EXCEPT !.buf = r.buf, !.type = type, !.endianness = endianness,
                                  !.byteAddr = byteAddr, !.out = r.value]
    /\ UNCHANGED <<deviceVars, tr, store, file, ascii, tag>>

\* A raw buffer has arrived.
InitCodec ==
    /\ InitWith("DeviceConnection")
    /\ tr = NewTranslator /\ store = DeviceStore /\ file = NewFile /\ ascii = NewASCII /\ tag = NewTag
    /\ \E buf \in Buffers : codec = [NewCodec EXCEPT !.buf = buf]

NextCodec ==
    \E type \in BufferTypes, endianness \in Endiannesses, byteAddr \in 0..(BufLen - 4) :
       ParseFixedBuffer(type, endianness, byteAddr)

SpecCodec == InitCodec /\ [][NextCodec]_vars

(***************************************************************************)
(* Persisting the polling interval: Device.#updateConfig of two devices.   *)
(***************************************************************************)
PollValues == {NewPollInt, 2 * NewPollInt}

RemoveAt(s, i) == SubSeq(s, 1, i - 1) \o SubSeq(s, i + 1, Len(s))

\* The Polling Interval case of _handleDCmd of device name: the metric is set
\* and #updateConfig("pollInt", value) starts fs.readFile.
UpdateConfigCall(name, value) ==
    /\ file.cmds[name] < MaxConfCmds
    /\ file' = [file EXCEPT !.pollInt[name] = value,
                            !.cmds[name] = @ + 1,
                            !.ops = Append(@, [name |-> name, value |-> value,
                                               phase |-> "readFile", conf |-> <<>>])]
    /\ UNCHANGED <<deviceVars, tr, store, codec, ascii, tag>>

\* The callback of fs.readFile: the file as it is now is parsed, the entries
\* of this device are changed, and fs.writeFile is started with the result.
ReadFileCallback(i) ==
    /\ file.ops[i].phase = "readFile"
    /\ file' = [file EXCEPT !.ops[i].phase = "writeFile",
                            !.ops[i].conf = UpdateConf(file.conf, file.ops[i].name,
                                                       file.ops[i].value)]
    /\ UNCHANGED <<deviceVars, tr, store, codec, ascii, tag>>

\* fs.writeFile replaces the file by what was stringified.
WriteFileCallback(i) ==
    /\ file.ops[i].phase = "writeFile"
    /\ file' = [file EXCEPT !.conf = file.ops[i].conf, !.ops = RemoveAt(@, i)]
    /\ UNCHANGED <<deviceVars, tr, store, codec, ascii, tag>>

InitConfig ==
    /\ InitWith("DeviceConnection")
    /\ tr = NewTranslator /\ store = DeviceStore /\ codec = NewCodec /\ file = NewFile /\ ascii = NewASCII /\ tag = NewTag

NextConfig ==
    \/ \E name \in ConfDevices, value \in PollValues : UpdateConfigCall(name, value)
    \/ \E i \in 1..Len(file.ops) : ReadFileCallback(i)
    \/ \E i \in 1..Len(file.ops) : WriteFileCallback(i)

SpecConfig == InitConfig /\ [][NextConfig]_vars

(***************************************************************************)
(* The ASCII TCP driver at work.                                           *)
(***************************************************************************)
\* open(): the socket is created.
SocketOpens ==
    /\ ~ascii.thrown
    /\ ~ascii.socket
    /\ ascii' = [ascii EXCEPT !.socket = TRUE]
    /\ UNCHANGED <<deviceVars, tr, store, codec, file, tag>>

\* sendMessage(message): with a socket, the promise's resolve is kept and the
\* message is written; in either case an entry is pushed.
SendMessage ==
    /\ ~ascii.thrown
    /\ ascii.issued < MaxRequests
    /\ ascii' = [ascii EXCEPT !.issued = @ + 1,
                              !.unanswered = IF ascii.socket THEN @ + 1 ELSE @,
                              !.promiseResolutionQueue =
                                  Append(@, [req |-> ascii.issued + 1,
                                             promiseResolve |-> ascii.socket])]
    /\ UNCHANGED <<deviceVars, tr, store, codec, file, tag>>

\* The device answers a request it was sent: response and delimiter.
DeviceAnswers(response) ==
    /\ ~ascii.thrown
    /\ ascii.unanswered > 0
    /\ ascii' = [ascii EXCEPT !.unanswered = @ - 1,
                              !.wire = @ \o response \o <<Delimiter>>]
    /\ UNCHANGED <<deviceVars, tr, store, codec, file, tag>>

\* The socket's 'data' event with the next n bytes: _receiveData(data).
ReceiveData(n) ==
    /\ ~ascii.thrown
    /\ n \in 1..Len(ascii.wire)
    /\ LET data == SubSeq(ascii.wire, 1, n)
       IN  ascii' = ReceiveLoop([ascii EXCEPT !.wire = SubSeq(@, n + 1, Len(@)),
                                             !.received = @ \o data,
                                             !.queue = @ \o data])
    /\ UNCHANGED <<deviceVars, tr, store, codec, file, tag>>

NextASCII ==
    \/ SocketOpens
    \/ SendMessage
    \/ \E response \in AsciiResponses : DeviceAnswers(response)
    \/ \E n \in 1..Len(ascii.wire) : ReceiveData(n)

SpecASCII == Init /\ [][NextASCII]_vars

(***************************************************************************)
(* reHashConf on a tag of the configuration document.                      *)
(***************************************************************************)
InitTags ==
    /\ InitWith("DeviceConnection")
    /\ tr = NewTranslator /\ store = DeviceStore /\ codec = NewCodec /\ file = NewFile
    /\ ascii = NewASCII
    /\ \E type \in DeclaredTypes : tag = [NewTag EXCEPT !.type = type]

\* reHashConf: const metric = rehashTag(tag). tag.type goes on holding the
\* type as declared, which the metric is compared with.
RehashTag ==
    /\ tag.metric = NoMetric
    /\ tag' = [tag EXCEPT !.metric = rehashTag(tag)]
    /\ UNCHANGED <<deviceVars, tr, store, codec, file, ascii>>

NextTags == RehashTag

SpecTags == InitTags /\ [][NextTags]_vars

\* The life cycle of the device: connection, birth, data, rebirth, death, stop.
Next ==
    \/ DeviceConnected
    \/ DeviceDisconnected
    \/ \E obj \in LifeObjs : DataEvent(obj)
    \/ \E payload \in Single(LifeCmds) : DCmd(payload)
    \/ DBirthRequest
    \/ BirthPublished
    \/ WatchdogExpires
    \/ Stop
    \/ Tick

Spec == Init /\ [][Next]_vars

\* The watchdog on a driver that stays open: what refreshes it (data events,
\* successful writes) and when it runs out.
NextWatchdog ==
    \/ DeviceConnected
    \/ \E obj \in LifeObjs : DataEvent(obj)
    \/ \E payload \in Single(WriteCmds) : DCmd(payload)
    \/ BirthPublished
    \/ \E err \in BOOLEAN : WriteCallback(err)
    \/ WatchdogExpires
    \/ Tick

SpecWatchdog == Init /\ [][NextWatchdog]_vars

\* Inbound data in general, on a device that connects, is born and may die.
NextData ==
    \/ DeviceConnected
    \/ \E obj \in DataObjs : DataEvent(obj)
    \/ BirthPublished
    \/ WatchdogExpires
    \/ Tick

SpecData == Init /\ [][NextData]_vars

\* The change filter: values a driver can deliver at the two read addresses,
\* parsed from a document or taken as they are.
FilterValues == {Num(0), Num(1), Bool(FALSE), Str(<<>>), Null, Undef, NaN}
FilterDocs == {Doc(v, 0) : v \in FilterValues}
FilterObjs == {ObjOf(x, y) : x \in FilterDocs, y \in {NoDoc, Doc(Num(0), 0)}}

NextFilter ==
    \/ DeviceConnected
    \/ BirthPublished
    \/ \E obj \in FilterObjs : DataEvent(obj)
    \/ \E obj \in FilterObjs : DataEventRaw(obj)

SpecFilter == Init /\ [][NextFilter]_vars

\* Decode failures: a number that cannot be parsed and a message that is not
\* JSON, next to payloads that decode.
DecodeDocsA1 == {Doc(Str(<<"1">>), 0), Doc(Str(<<"x">>), 0), InvalidJson}
DecodeDocsA2 == {NoDoc, Doc(Str(<<"2">>), 0)}
DecodeObjs == {ObjOf(x, y) : x \in DecodeDocsA1, y \in DecodeDocsA2}

NextDecode ==
    \/ DeviceConnected
    \/ BirthPublished
    \/ \E obj \in DecodeObjs : DataEvent(obj)
    \/ WatchdogExpires
    \/ Tick

SpecDecode == Init /\ [][NextDecode]_vars

\* Which metrics a data event reaches: devices configured for JSON or for
\* delimited payloads, events with one address or two, parsed or not.
SelectFormats == {"JSON", "Delimited String"}
SelectDocs == {Doc(Num(1), 0), Doc(Str(<<"2">>), 0)}
SelectObjs == {ObjOf(x, y) : x \in SelectDocs \cup {NoDoc}, y \in {NoDoc, Doc(Num(3), 0)}}

InitSelect ==
    /\ InitWith("DeviceConnection")
    /\ tr = NewTranslator /\ store = DeviceStore /\ file = NewFile /\ ascii = NewASCII /\ tag = NewTag
    /\ \E format \in SelectFormats : codec = [NewCodec EXCEPT !.format = format]

NextSelect ==
    \/ DeviceConnected
    \/ BirthPublished
    \/ \E obj \in SelectObjs : DataEvent(obj)
    \/ \E obj \in SelectObjs : DataEventRaw(obj)

SpecSelect == InitSelect /\ [][NextSelect]_vars

\* Commands in general, on a device that connects, is born and may lose its driver.
NextCmd ==
    \/ DeviceConnected
    \/ DeviceDisconnected
    \/ \E payload \in CmdPayloads : DCmd(payload)
    \/ BirthPublished
    \/ \E err \in BOOLEAN : WriteCallback(err)
    \/ ReadyPoll
    \/ ConfigWritten

SpecCmd == Init /\ [][NextCmd]_vars

\* Commands whose target the device does not know, alone, before a write and
\* after a change of the polling interval.
SkipTargets == {CmdMetric("Unknown", Num(7)), AliasOnlyCmd}
SkipPayloads ==
    Single(SkipTargets \cup WriteCmds)
    \cup {<<m, w>> : m \in SkipTargets, w \in WriteCmds}
    \cup {<<CmdMetric(PollingIntervalName, Num(NewPollInt)), m>> : m \in SkipTargets}

NextSkip ==
    \/ DeviceConnected
    \/ BirthPublished
    \/ \E payload \in SkipPayloads : DCmd(payload)
    \/ \E err \in BOOLEAN : WriteCallback(err)
    \/ ConfigWritten

SpecSkip == Init /\ [][NextSkip]_vars

\* The readiness loop among opens, closes, polling-interval commands and
\* stop().  setInterval keeps firing the poll every 100 ms, so a poll that
\* stays due is run.
NextReady ==
    \/ DeviceConnected
    \/ DeviceDisconnected
    \/ BirthPublished
    \/ ReadyPoll
    \/ \E payload \in Single({CmdMetric(PollingIntervalName, Num(NewPollInt))}) : DCmd(payload)
    \/ ConfigWritten
    \/ Stop
    \/ \E obj \in LifeObjs : DataEvent(obj)

SpecReady == Init /\ [][NextReady]_vars /\ WF_vars(ReadyPoll)

(***************************************************************************)
(* Properties. A step's northbound frames are the publish calls of calls', *)
(* in order; lastLifeFrame is the BIRTH or DEATH that preceded the step.   *)
(***************************************************************************)
\* The positions of cs at which op is called.
CallsOf(cs, op) == {i \in 1..Len(cs) : cs[i].op = op}

\* The last BIRTH or DEATH frame handed to the node before the i-th call of cs,
\* start being the last one handed over before cs began.
LifeBefore(cs, i, start) ==
    LET S == {j \in 1..(i - 1) : cs[j].op \in {"publishDBirth", "publishDDeath"}}
    IN  IF S = {} THEN start
        ELSE IF cs[Max(S)].op = "publishDBirth" THEN "BIRTH" ELSE "DEATH"

\* The step is the handling of a dcmd with payload p / of a data event with obj.
\* (The first conjuncts follow from the last; they spare its evaluation.)
IsDCmd(p) ==
    /\ calls' # <<>>
    /\ calls'[1] = Called("log DCMD", <<[name |-> p[1].name, value |-> p[1].value]>>)
    /\ DCmd(p)

IsDataEvent(obj) ==
    /\ prevObj'.isData
    /\ prevObj'.obj = obj
    /\ DataEvent(obj)

TempIdx == NameIndex("Temp")
PollingIntervalIdx == NameIndex(PollingIntervalName)

\* C1: every DATA frame handed to the node is preceded by a BIRTH frame with no
\* DEATH frame between that BIRTH and the DATA, whatever the interleaving of
\* open, close, data, commands, watchdog expiry and completed BIRTH publishes.
C1_DataWithinBirthEpoch ==
    [][\A i \in CallsOf(calls', "publishDData") :
           LifeBefore(calls', i, lastLifeFrame) = "BIRTH"]_vars

\* C2: the frames match BIRTH (DATA)* DEATH?: a DEATH frame is handed to the
\* node only when the last BIRTH or DEATH before it is a BIRTH, so never
\* before the first BIRTH and never twice without a BIRTH between.
C2_DeathEndsBirthEpoch ==
    [][\A i \in CallsOf(calls', "publishDDeath") :
           LifeBefore(calls', i, lastLifeFrame) = "BIRTH"]_vars

\* C3: when a connected device that is alive since its last BIRTH has seen no
\* data event and no completed write for a full watchdog period, its watchdog
\* is due: it expires, which publishes the DEATH frame and clears isAlive.
C3_QuietDeviceDies ==
    (isConnected /\ isAlive /\ lastLifeFrame = "BIRTH" /\ quiet >= WatchdogPeriod)
    => deathTimer = Armed(0)

\* C4: while the driver stays open and every gap between watchdog refreshes
\* (data events, successful writes; the first gap starts when the constructor
\* arms the timer) stays below the watchdog period, no DEATH frame is published.
C4_NoDeathWhileRefreshed == ~lateRefresh => lastLifeFrame # "DEATH"

C4_Witness ==
    /\ ~lateRefresh
    /\ now - StartTime > WatchdogPeriod
    /\ isConnected
    /\ isAlive
    /\ deathTimer.state = "armed"

\* C5: after a watchdog DEATH with the driver still open (and no BIRTH publish
\* outstanding), the next data event
\* that changes a value publishes a BIRTH frame followed by a DATA frame that
\* carries the change.
C5_BirthThenDataAfterDeath ==
    [][\A obj \in LifeObjs :
           (/\ isConnected
            /\ ~isAlive
            /\ lastLifeFrame = "DEATH"
            /\ pendingBirths = 0
            /\ IsDataEvent(obj)
            /\ ChangedBy(Self, obj, TRUE, now) # <<>>)
           => /\ Len(calls') = 2
              /\ calls'[1].op = "publishDBirth"
              /\ calls'[2] = Called("publishDData", ChangedBy(Self, obj, TRUE, now))]_vars

\* C6: on an alive device a data event that changes the store publishes exactly
\* one DATA frame, with the changed metrics; a data event that carries the same
\* values as the data event before it publishes nothing and leaves every
\* metric's value and timestamp as they were.
C6_RepeatedValueIsSilent ==
    [][\A obj \in DataObjs :
           (isAlive /\ IsDataEvent(obj))
           => /\ (prevObj.isData /\ SameValues(prevObj.obj, obj))
                     => (calls' = <<>> /\ metrics' = metrics)
              /\ (metrics' # metrics)
                     => calls' = <<Called("publishDData",
                                          ChangedBy(Self, obj, TRUE, now))>>]_vars

C6_Witness ==
    /\ isAlive
    /\ prevObj.isData
    /\ prevObj.same
    /\ prevObj.obj["a1"].present
    /\ metrics[TempIdx].value = Num(1)
    /\ lastLifeFrame = "BIRTH"

\* C7: the stored timestamp of a GET metric never decreases from one accepted
\* update to the next, with or without a timestamp in the payload.
C7_TimestampNeverDecreases ==
    [][\A i \in MetricIdx :
           StartsWithGET(MetricConf[i].method)
           => metrics'[i].timestamp >= metrics[i].timestamp]_vars

\* C8: a dcmd carrying Device Control/Polling Interval = v makes the device, in
\* this order, stop the subscription, set the stored metric to v, publish one
\* DATA frame for that metric, restart the subscription with interval v and
\* start persisting pollInt = v.
C8_PollingIntervalSequence ==
    [][IsDCmd(<<CmdMetric(PollingIntervalName, Num(NewPollInt))>>)
       => /\ Len(calls') = 6
          /\ calls'[2].op = "stopSubscription"
          /\ calls'[3] = Called("setValueByName", <<Num(NewPollInt)>>)
          /\ calls'[4] = Called("publishDData",
                                <<[name |-> PollingIntervalName, value |-> Num(NewPollInt)]>>)
          /\ calls'[5] = Called("startSubscription", <<Num(NewPollInt)>>)
          /\ calls'[6] = Called("updateConfig", <<Num(NewPollInt)>>)
          /\ metrics'[PollingIntervalIdx].value = Num(NewPollInt)
          /\ intHandle' = Handle(NewPollInt)
          /\ pendingConf' = Append(pendingConf, Num(NewPollInt))]_vars

\* C9: on a connected, alive device a dcmd carrying Device Control/Rebirth =
\* true publishes a BIRTH frame and leaves isAlive true; isAlive turns false
\* only in a step that publishes a DEATH frame.
C9_RebirthKeepsAlive ==
    [][/\ (isAlive /\ isConnected /\ IsDCmd(<<CmdMetric(RebirthName, Bool(TRUE))>>))
           => (CallsOf(calls', "publishDBirth") # {} /\ isAlive')
       /\ (isAlive /\ ~isAlive') => CallsOf(calls', "publishDDeath") # {}]_vars

C9_Witness ==
    /\ isAlive
    /\ isConnected
    /\ Len(calls) = 2
    /\ calls[1] = Called("log DCMD", <<[name |-> RebirthName, value |-> Bool(TRUE)]>>)
    /\ calls[2].op = "publishDBirth"

\* C10 as stated: a dcmd targeting a metric whose method starts with GET
\* causes no driver write, no change to the metric store and no DATA frame.
C10_NoWriteToGetPrefixed ==
    [][\A m \in CmdMetrics :
           (/\ NameIndex(m.name) # 0
            /\ StartsWithGET(MetricConf[NameIndex(m.name)].method)
            /\ IsDCmd(<<m>>))
           => /\ pendingWrites' = pendingWrites
              /\ metrics' = metrics
              /\ CallsOf(calls', "writeMetrics") = {}
              /\ CallsOf(calls', "publishDData") = {}]_vars

\* C10, amended: a dcmd targeting a metric whose method is exactly GET is
\* logged as read only and causes no driver write, no change to the metric
\* store and no DATA frame; a metric whose method only starts with GET
\* (GET_SET) is handed to the driver for writing, the store staying as it is
\* until the driver's callback.
C10_NoWriteToGetOnly ==
    [][\A m \in CmdMetrics :
           (/\ NameIndex(m.name) # 0
            /\ StartsWithGET(MetricConf[NameIndex(m.name)].method)
            /\ IsDCmd(<<m>>))
           => LET method == MetricConf[NameIndex(m.name)].method
                  target == <<[name |-> m.name, value |-> m.value]>>
              IN  /\ metrics' = metrics
                  /\ CallsOf(calls', "publishDData") = {}
                  /\ (method = MGet)
                         => /\ pendingWrites' = pendingWrites
                            /\ calls' = <<Called("log DCMD", target),
                                          Called("log read only", target)>>
                  /\ (method # MGet)
                         => /\ pendingWrites' = Append(pendingWrites, target)
                            /\ calls' = <<Called("log DCMD", target),
                                          Called("writeMetrics", target)>>]_vars

C10_Witness ==
    /\ isConnected
    /\ isAlive
    /\ calls = <<Called("log DCMD", <<[name |-> "Temp", value |-> Num(7)]>>),
                 Called("log read only", <<[name |-> "Temp", value |-> Num(7)]>>)>>

\* The step is the driver's callback for the oldest outstanding write.
IsWriteCallback(err) ==
    /\ pendingWrites # <<>>
    /\ pendingWrites' = Tail(pendingWrites)
    /\ WriteCallback(err)

\* C11: when the write callback reports success every written metric is
\* mirrored by name into the store, one DATA publish is attempted with exactly
\* the mirrored metrics (a DATA frame on an alive device, nothing but a BIRTH
\* request otherwise) and the watchdog is restarted; when it reports an error
\* the store, the frames and the watchdog stay as they were.
C11_WriteCallbackMirrors ==
    [][/\ IsWriteCallback(FALSE)
           => LET written == Head(pendingWrites)
              IN  /\ \A j \in 1..Len(written) :
                         metrics'[NameIndex(written[j].name)].value
                             = written[Max({k \in 1..Len(written) :
                                              written[k].name = written[j].name})].value
                  /\ \A i \in MetricIdx :
                         (\A j \in 1..Len(written) : NameIndex(written[j].name) # i)
                         => metrics'[i] = metrics[i]
                  /\ isAlive => calls' = <<Called("publishDData",
                                                  [j \in 1..Len(written) |->
                                                     [name |-> written[j].name,
                                                      value |-> metrics'[NameIndex(written[j].name)].value]])>>
                  /\ ~isAlive => CallsOf(calls', "publishDData") = {}
                  /\ deathTimer' = Armed(WatchdogPeriod)
       /\ IsWriteCallback(TRUE)
           => /\ metrics' = metrics
              /\ calls' = <<>>
              /\ deathTimer' = deathTimer]_vars

C11_Witness ==
    /\ isAlive
    /\ metrics[NameIndex("Setpoint")].value = Num(7)
    /\ calls = <<Called("publishDData", <<[name |-> "Setpoint", value |-> Num(7)]>>)>>
    /\ deathTimer = Armed(WatchdogPeriod)
    /\ now > StartTime


\* C12: for every driver (base DeviceConnection, S7, OPC UA, ASCII TCP, Open
\* Protocol), each call of writeMetrics(metrics, cb) invokes cb exactly once,
\* whether the write succeeds or fails: a call that no longer awaits the
\* device has invoked its callback once.
C12_EveryWriteCallsBackOnce ==
    \A i \in 1..Len(drv.writes) : ~drv.writes[i].awaiting => drv.writes[i].cbs = 1

IsDrvClose == calls' # <<>> /\ calls'[1].op = "close"

\* C13: for every driver, close() delivers a close event to the device (the
\* device is no longer connected, and an alive device publishes its DEATH), and
\* a close() after a close() publishes no DEATH and leaves the flags as they are.
C13_CloseDeliversCloseOnce ==
    [][IsDrvClose /\ pendingBirths = 0 =>
          /\ ~isConnected'
          /\ ~isAlive'
          /\ isAlive => CallsOf(calls', "publishDDeath") # {}
          /\ drv.closed => /\ CallsOf(calls', "publishDDeath") = {}
                           /\ isConnected' = isConnected
                           /\ isAlive' = isAlive]_vars

\* C14: after stopSubscription has returned, and until startSubscription is
\* called again, no periodic read is issued and no subscription-driven data
\* event is emitted for the device, with the timer implementation and with
\* the OPC UA override of startSubscription.
C14_NoReadAfterStopSubscription ==
    [][CallsOf(calls', "readMetrics") \cup CallsOf(calls', "emit data") # {} => drv.subscribed]_vars


\* C15: after Device.stop() the watchdog never publishes a DEATH, no periodic
\* read for the device runs and no subscription is started for it, even if
\* the connection opens after stop() or data events keep arriving. (stop()
\* is the only code that clears the watchdog, and nothing arms it again.)
C15_NothingRunsAfterStop ==
    [][deathTimer.state = "cleared" =>
          /\ deathTimer'.state = "cleared"
          /\ CallsOf(calls', "publishDDeath") = {}
          /\ CallsOf(calls', "readMetrics") = {}
          /\ CallsOf(calls', "startSubscription") = {}]_vars


StopPcs == {"stopDevices", "closeConnections", "stopNode", "emitStopped", "stopped"}

\* C16: Translator.stop() stops every device and closes every connection that
\* start() constructed (several declared connections of the same connType
\* included), then stops the Sparkplug node, then emits stopped, in that
\* order; stated for a stop() that follows a start() that has completed.
C16_StopClosesEverything ==
    tr.pc = "stopped" /\ ~tr.caught =>
        /\ tr.madeDevices \subseteq tr.stoppedDevs
        /\ tr.made \subseteq tr.closed
        /\ tr.node => tr.nodeStopped
        /\ tr.trace = <<"devices", "connections", "node", "stopped">>

\* C17: if constructing a connection or a device throws during start(), then
\* start() sets up no further connection, registers no Sparkplug handlers and
\* calls stop(), which stops the devices and closes the connections
\* constructed so far and emits stopped.
C17_ThrowingConstructorStopsAll ==
    [][tr.caught /\ tr.node =>
          /\ tr.pc \in StopPcs
          /\ tr'.made = tr.made
          /\ tr'.madeDevices = tr.madeDevices
          /\ ~tr'.handlers
          /\ tr'.pc = "stopped" =>
                /\ tr'.madeDevices \subseteq tr'.stoppedDevs
                /\ tr'.made \subseteq tr'.closed
                /\ tr'.trace[Len(tr'.trace)] = "stopped"]_vars

\* C18: the retry helper returns only a defined value produced by the probe.
\* While the probe returns undefined it sleeps the configured interval and
\* probes again; it ends with v as soon as the probe returns a defined v; and
\* start() constructs no Sparkplug node, connection or device before an
\* identity with UUID and Sparkplug address and a valid config are returned.
C18_RetryReturnsDefinedProbe ==
    [][/\ \A resp \in IdResponses :
             tr.pc = "fetchIds" /\ TrFetchIdentities(resp, FALSE) =>
                IF IdProbe(resp).defined
                THEN tr'.ids = resp /\ tr'.pc = "fetchConf"
                ELSE tr'.ids = tr.ids /\ tr'.pc = "waitIds" /\ tr'.sleep = PollInt * 1000
       /\ \A resp \in ConfResponses :
             tr.pc = "fetchConf" /\ TrFetchConfig(resp, FALSE) =>
                IF ConfProbe(resp).defined
                THEN tr'.conf = resp /\ tr'.pc = "setup"
                ELSE tr'.conf = tr.conf /\ tr'.pc = "waitConf" /\ tr'.sleep = PollInt * 1000
       /\ tr.pc = "waitIds" => tr'.pc = "fetchIds"
       /\ tr.pc = "waitConf" => tr'.pc = "fetchConf"
       /\ tr'.node \/ tr'.made # {} \/ tr'.madeDevices # {} =>
             /\ tr'.ids.defined /\ tr'.ids.uuid # "" /\ tr'.ids.sparkplug # ""
             /\ tr'.conf.defined /\ tr'.conf.valid]_vars

\* Both fetches went round at least once, then returned, and the first
\* connection has been built.
C18_Witness ==
    /\ tr.attempts = MaxAttempts
    /\ tr.ids = Ids("u1", "n1")
    /\ tr.conf.valid
    /\ tr.node
    /\ tr.made = {1}

\* C19: if the config service or the identity service is unavailable (the
\* fetch call fails) or returns an invalid document, start() does not abort
\* and does not call stop(): the fetch is retried at the poll interval.
C19_FailedFetchIsRetried ==
    [][/\ tr.pc \in {"fetchIds", "fetchConf"} =>
             /\ ~tr'.caught
             /\ tr'.pc \notin StopPcs
       /\ tr.pc = "waitIds" => tr'.pc = "fetchIds" /\ tr.sleep = PollInt * 1000
       /\ tr.pc = "waitConf" => tr'.pc = "fetchConf" /\ tr.sleep = PollInt * 1000]_vars


\* The positions of the metrics of the store whose method starts with GET.
GetMetrics(st) == {i \in 1..Len(st.array) : StartsWithGET(st.array[i].method)}

\* Is the (address, path) pair of the metric at i unique among the GET metrics?
UniquePair(st, i) ==
    \A j \in GetMetrics(st) \ {i} :
        st.array[j].address # st.array[i].address \/ st.array[j].path # st.array[i].path

\* C20: after any sequence of construction and add() calls, for every GET
\* metric m whose (address, path) pair is unique among the GET metrics,
\* getByAddrPath(address(m), path(m)) returns exactly m and
\* getPathsForAddr(address(m)) contains path(m) exactly once; and no metric
\* that is not a GET metric is reachable through the address indices.
C20_IndicesFindGetMetrics ==
    /\ \A i \in GetMetrics(store) :
          UniquePair(store, i) =>
             LET m == store.array[i]
                 paths == MetricsGetPathsForAddr(store, m.address)
             IN  /\ MetricsGetByAddrPath(store, m.address, m.path) = i
                 /\ Cardinality({n \in 1..Len(paths) : paths[n] = m.path}) = 1
    /\ \A a \in 1..Len(MetricsAddresses(store)) :
          LET addr == MetricsAddresses(store)[a]
              found == MetricsGetByAddress(store, addr)
              paths == MetricsGetPathsForAddr(store, addr)
          IN  /\ \A n \in 1..Len(found) : found[n] \in GetMetrics(store)
              /\ \A n \in 1..Len(paths) :
                    MetricsGetByAddrPath(store, addr, paths[n]) \in GetMetrics(store)
    /\ \A a \in 1..Len(store.addrIndex) :
          JsHas(store.addrPathIndex, store.addrIndex[a].k)

\* A read metric, then add() of a written metric with the same address and
\* path and of a read one with another path: the indices have been rebuilt.
C20_Witness ==
    /\ store.array = <<Metric("A", MGet, "a1", "$.v"), Metric("C", MPut, "a1", "$.v"),
                       Metric("B", MGetSet, "a1", "$.w")>>
    /\ MetricsGetByAddrPath(store, "a1", "$.v") = 1
    /\ MetricsGetPathsForAddr(store, "a1") = <<"$.v", "$.w">>
    /\ MetricsGetByAddress(store, "a1") = <<1, 1, 1, 1, 3, 3>>


\* A command metric that carries only an alias.
AliasOnly(alias) == [name |-> "", alias |-> alias, value |-> Num(7), timestamp |-> 0]

\* C21: a command metric carrying only an alias is resolved to the name of the
\* metric at index i iff setAlias(i, alias) was the last setAlias call for
\* that alias, and the resolution stays as it is over later add() calls: a
\* new store resolves no alias; setAlias(i, alias) makes alias resolve to the
\* name at i and changes no other alias; add() changes no resolution.
C21_AliasResolvesAfterSetAlias ==
    [][/\ store.aliasIndex = <<>> =>
             \A a \in Aliases : DCmdName(store, AliasOnly(a)) = Throws
       /\ \A index \in 1..Len(store.array), alias \in Aliases :
             store' = MetricsSetAlias(store, index, alias) =>
                /\ DCmdName(store', AliasOnly(alias)) =
                      [thrown |-> FALSE, name |-> store.array[index].name]
                /\ \A a \in Aliases \ {alias} :
                      DCmdName(store', AliasOnly(a)) = DCmdName(store, AliasOnly(a))
       /\ Len(store'.array) > Len(store.array) =>
             \A a \in Aliases : DCmdName(store', AliasOnly(a)) = DCmdName(store, AliasOnly(a))]_vars

\* Alias 1 was given to the second metric and alias 2 to the first, and the
\* store has grown to three metrics: both aliases resolve.
C21_Witness ==
    /\ Len(store.array) = 3
    /\ store.aliasIndex = <<[k |-> 1, v |-> 2], [k |-> 2, v |-> 1]>>
    /\ DCmdName(store, AliasOnly(1)) = [thrown |-> FALSE, name |-> store.array[2].name]
    /\ DCmdName(store, AliasOnly(2)) = [thrown |-> FALSE, name |-> "F"]


\* C22: each setter (setValueByName, setValueByAlias, setValueByAddrPath)
\* writes value, timestamp and isNull of exactly one metric in one step,
\* leaves every other metric unchanged, returns the metric it has written,
\* and leaves isNull true iff the written value is absent (null or undefined).
C22_SetterWritesOneMetric ==
    [][calls' # <<>> /\ calls'[1].op = "return" =>
          \E i \in MetricIdx :
             /\ calls' = <<Returned(metrics', i)>>
             /\ \A j \in MetricIdx \ {i} : metrics'[j] = metrics[j]
             /\ metrics'[i].timestamp # 0
             /\ metrics'[i].isNull <=> metrics'[i].value \in {Null, Undef}]_vars

\* C23: decoding a uInt32 with PDP endianness at byte offset 0 from the bytes
\* b1 b2 b3 b4 yields the big-endian value of b3 b4 b1 b2.
C23_PDPDecodesWordSwapped ==
    [][codec'.type = "uInt32" /\ codec'.endianness = PDPEndian /\ codec'.byteAddr = 0 =>
          codec'.out = Num(ReadUInt32BE(<<codec.buf[3], codec.buf[4],
                                          codec.buf[1], codec.buf[2]>>, 0))]_vars

\* The entries of the config file, connection after connection.
RECURSIVE Flatten(_)
Flatten(conf) == IF conf = <<>> THEN <<>> ELSE Head(conf) \o Flatten(Tail(conf))

ConfEntries == Flatten(file.conf)

\* C24: a polling-interval command for a device changes only the pollInt of
\* that device's entry, and once the commands of two devices have finished
\* persisting the file holds the polling interval of both.
C24_FileHoldsEveryPollInt ==
    /\ Len(ConfEntries) = Len(Flatten(ConfFile))
    /\ \A i \in 1..Len(ConfEntries) :
          /\ ConfEntries[i].deviceId = Flatten(ConfFile)[i].deviceId
          /\ ConfEntries[i].payloadFormat = Flatten(ConfFile)[i].payloadFormat
          /\ ConfEntries[i].deviceId \notin ConfDevices =>
                ConfEntries[i].pollInt = InitPollInt
          /\ ConfEntries[i].deviceId \in ConfDevices /\ file.cmds[ConfEntries[i].deviceId] = 0 =>
                ConfEntries[i].pollInt = InitPollInt
    /\ file.ops = <<>> /\ (\A d \in ConfDevices : file.cmds[d] > 0) =>
          \A i \in 1..Len(ConfEntries) :
             ConfEntries[i].deviceId \in ConfDevices =>
                ConfEntries[i].pollInt = file.pollInt[ConfEntries[i].deviceId]

\* C25: handling a driver close leaves isConnected and isAlive false, and
\* isAlive is never true while isConnected is false, also when a BIRTH publish
\* that was pending at the close or at a watchdog DEATH completes afterwards.
C25_AliveOnlyWhileConnected ==
    [][/\ DeviceDisconnected => ~isConnected' /\ ~isAlive'
       /\ isAlive' => isConnected']_vars

\* C26: after a watchdog DEATH with the driver still open (and no BIRTH publish
\* outstanding), every data event publishes a BIRTH, also one whose values all
\* equal the stored values.
C26_DataAfterDeathPublishesBirth ==
    [][\A obj \in LifeObjs :
           (/\ isConnected
            /\ ~isAlive
            /\ lastLifeFrame = "DEATH"
            /\ pendingBirths = 0
            /\ IsDataEvent(obj))
           => CallsOf(calls', "publishDBirth") # {}]_vars

\* The interval timers of the device that are running: the one the handle
\* refers to and those whose handle was overwritten.
ActiveTimers == (IF intHandle.active THEN 1 ELSE 0) + leakedTimers

\* C27: on the default driver at most one periodic read timer of the device
\* is running at any moment, and none is running once stopSubscription has
\* dropped the handle.
C27_AtMostOnePeriodicTimer ==
    /\ ActiveTimers <= 1
    /\ ~intHandle.active => ActiveTimers = 0

\* The step is a run of the readiness loop that subscribes: the handlers of
\* commands log the command before they call anything.
LoopSubscribes == calls' # <<>> /\ calls'[1].op = "startSubscription"

\* C28: the readiness loop calls startSubscription only while isConnected is
\* true, it calls it once and is removed in the same step, it is never
\* installed again, and while the device stays connected it does get to
\* that call.
C28_ReadinessLoopSubscribesOnce ==
    /\ [][/\ LoopSubscribes => /\ isConnected
                               /\ readyInterval
                               /\ ~readyInterval'
                               /\ Len(calls') = 1
          /\ ~readyInterval => ~readyInterval']_vars
    /\ [](isConnected => <>(~readyInterval \/ ~isConnected))

C28_Witness ==
    /\ ~readyInterval
    /\ isConnected
    /\ intHandle.active
    /\ calls # <<>> /\ calls[1].op = "startSubscription"

\* C29: when the driver's open event sets isConnected, the metric
\* subscription is running or is started before the BIRTH is published, and
\* isAlive becomes true only when a BIRTH publish completes.
C29_SubscribedBeforeBirth ==
    [][/\ (~isConnected /\ isConnected' /\ CallsOf(calls', "publishDBirth") # {}) =>
             \/ intHandle.active
             \/ \E i \in CallsOf(calls', "startSubscription") :
                   \A j \in CallsOf(calls', "publishDBirth") : i < j
       /\ (~isAlive /\ isAlive') => pendingBirths' < pendingBirths]_vars

\* C30: during start() the Sparkplug handlers are registered before open()
\* is called on any connection.
C30_HandlersBeforeOpen == tr.opened # {} => tr.handlers

\* The step is the handling of data(obj, parseVals).
IsHandleData(obj, parseVals) ==
    /\ prevObj'.isData
    /\ prevObj'.obj = obj
    /\ IF parseVals THEN DataEvent(obj) ELSE DataEventRaw(obj)

\* The value a data event carries for metric i.
Computed(i, obj, parseVals) ==
    IF parseVals
    THEN ParseValueFromPayload(obj[MetricConf[i].address], MetricConf[i], PayloadFormat)
    ELSE obj[MetricConf[i].address].v

\* The metrics a data event is about: bound to an address of obj, read with
\* GET, and (values taken as they are, or one address only, or a path).
ReadBy(obj, parseVals) ==
    {i \in MetricIdx :
        /\ StartsWithGET(MetricConf[i].method)
        /\ \E n \in 1..Len(ObjKeys(obj)) : ObjKeys(obj)[n] = MetricConf[i].address
        /\ \/ ~parseVals
           \/ Len(ObjKeys(obj)) = 1
           \/ MetricConf[i].path # ""}

\* What a data event does when the values in valid are the acceptable ones:
\* the metrics whose value is acceptable and differs from the stored one take
\* that value, one DATA publish with exactly those metrics is attempted (a
\* DATA frame on an alive device), and nothing is published when there is none.
FilterEffect(valid) ==
    \A obj \in FilterObjs, parseVals \in BOOLEAN :
       IsHandleData(obj, parseVals) =>
          LET acc == {i \in ReadBy(obj, parseVals) :
                         /\ Computed(i, obj, parseVals) \in valid
                         /\ Computed(i, obj, parseVals) # metrics[i].value}
          IN  /\ \A i \in MetricIdx :
                    metrics'[i].value = IF i \in acc THEN Computed(i, obj, parseVals)
                                        ELSE metrics[i].value
              /\ acc = {} => calls' = <<>>
              /\ (acc # {} /\ isAlive) =>
                    /\ Len(calls') = 1
                    /\ calls'[1].op = "publishDData"
                    /\ Len(calls'[1].arg) = Cardinality(acc)
                    /\ {calls'[1].arg[j] : j \in 1..Len(calls'[1].arg)}
                          = {[name |-> MetricConf[i].name, value |-> Computed(i, obj, parseVals)] : i \in acc}
              /\ (acc # {} /\ ~isAlive) => CallsOf(calls', "publishDData") = {}

LevelIdx == NameIndex("Level")

\* C32: a data event changes the value, timestamp or isNull only of metrics
\* that are bound to an address of obj, have a method starting with GET, and
\* (parseVals is false, or obj has exactly one address, or the metric has a
\* non-empty path).
C32_OnlySelectedMetricsChange ==
    [][\A obj \in SelectObjs, parseVals \in BOOLEAN :
           IsHandleData(obj, parseVals) =>
              \A i \in MetricIdx :
                 metrics'[i] # metrics[i] => i \in ReadBy(obj, parseVals)]_vars

\* A parsed event with two addresses has left the metric without a path as it
\* was, although the payload of its address held another value.
C32_Witness ==
    /\ PayloadFormat = "Delimited String"
    /\ prevObj.isData
    /\ prevObj.obj["a1"].present /\ prevObj.obj["a2"].present
    /\ prevObj.obj["a1"].v = Str(<<"2">>)
    /\ metrics[LevelIdx].value = Num(1)

\* C33: a decode failure for one metric of a data event (a message that is
\* not JSON, a number that cannot be parsed) leaves that metric as it was,
\* and the other metrics of the event are still updated and published and the
\* watchdog is still refreshed.
C33_DecodeFailureIsConfined ==
    [][\A obj \in DecodeObjs :
           IsDataEvent(obj) =>
              LET failed == {i \in ReadBy(obj, TRUE) :
                                Computed(i, obj, TRUE) \in {Thrown, Null, Undef}}
                  accepted == {i \in ReadBy(obj, TRUE) \ failed :
                                  Computed(i, obj, TRUE) # metrics[i].value}
              IN  /\ \A i \in failed : metrics'[i] = metrics[i]
                  /\ \A i \in accepted : metrics'[i].value = Computed(i, obj, TRUE)
                  /\ (accepted # {} /\ isAlive) => CallsOf(calls', "publishDData") # {}
                  /\ deathTimer.state # "cleared" => deathTimer' = Armed(WatchdogPeriod)]_vars

\* C34: a dcmd metric that names no metric of the device, or that carries
\* only an alias no setAlias call has registered, causes no store change, no
\* driver write and no frame, and a metric that follows it in the payload is
\* still processed.
C34_UnknownTargetIsSkipped ==
    [][\A m \in SkipTargets :
          /\ DCmd(<<m>>) =>
                /\ metrics' = metrics
                /\ pendingWrites' = pendingWrites
                /\ CallsOf(calls', "writeMetrics") = {}
                /\ CallsOf(calls', "publishDData") \cup CallsOf(calls', "publishDBirth") = {}
          /\ \A w \in WriteCmds :
                DCmd(<<m, w>>) =>
                   /\ metrics' = metrics
                   /\ pendingWrites' = Append(pendingWrites, <<[name |-> w.name, value |-> w.value]>>)
                   /\ CallsOf(calls', "publishDData") \cup CallsOf(calls', "publishDBirth") = {}]_vars

\* C35: an open, data or close event of a connection is delivered to the
\* devices constructed on that connection and to no other device, also when
\* two connections declare the same deviceId or have the same connType.
C35_EventsReachOwnDevices ==
    tr.delivery.conn # 0 =>
       tr.delivery.devs = {dev \in tr.madeDevices : dev[1] = tr.delivery.conn}

\* C36: during stop(), every connection that is closed has emitted its close
\* event (which the devices answer with their DEATH) by the time the
\* Sparkplug node's stop() is invoked, also when close() is asynchronous.
C36_CloseEventsBeforeNodeStop ==
    [][TrStopNode => tr.closed \subseteq tr.closeEmitted]_vars

\* Does the object of a data event carry an address one of the device's
\* metrics is bound to?
CarriesOwnAddress(obj) ==
    \E i \in MetricIdx, n \in 1..Len(ObjKeys(obj)) : ObjKeys(obj)[n] = MetricConf[i].address

\* C37: a data event that carries no address of the device's metrics (the
\* empty event, or one for a sibling device only) leaves the device's
\* watchdog as it is: it does not postpone the DEATH.
C37_ForeignDataLeavesWatchdog ==
    [][\A obj \in DataObjs :
          (~CarriesOwnAddress(obj) /\ DataEvent(obj)) => deathTimer' = deathTimer]_vars

\* C38: decoding a value from a raw buffer leaves the bytes of the buffer as
\* they were, for every type, offset and endianness including PDP.
C38_DecodingKeepsPayload ==
    [][codec'.buf = codec.buf]_vars

\* The delimiter-terminated responses in a sequence of bytes.
RECURSIVE Split(_)
Split(q) ==
    IF IndexOf(q) < 0 THEN <<>>
    ELSE <<SubSeq(q, 1, IndexOf(q))>> \o Split(SubSeq(q, IndexOf(q) + 2, Len(q)))

\* C39: whatever the chunks the bytes arrive in, the i-th delimiter-terminated
\* response received has resolved the i-th sendMessage request with that
\* response (an empty one and a request made without a socket included), and
\* no complete response is left in the buffer.
C39_ResponsesResolveInOrder ==
    LET complete == Split(ascii.received)
    IN  /\ Len(ascii.resolved) = Len(complete)
        /\ \A i \in 1..Len(complete) : ascii.resolved[i] = <<i, complete[i]>>
        /\ IndexOf(ascii.queue) < 0

\* C40: the metric made of a tag whose declared type ends in BE has
\* endianness 4321, of one whose type ends in LE 1234, of any other tag none,
\* and the suffix is not part of the metric's type.
C40_EndiannessFromSuffix ==
    tag.metric # NoMetric =>
       LET base == SubSeq(tag.type, 1, Len(tag.type) - 2)
       IN  /\ EndsWith(tag.type, <<"B", "E">>) =>
                 tag.metric.endianness = Num(4321) /\ tag.metric.type = base
           /\ EndsWith(tag.type, <<"L", "E">>) =>
                 tag.metric.endianness = Num(1234) /\ tag.metric.type = base
           /\ ~EndsWith(tag.type, <<"B", "E">>) /\ ~EndsWith(tag.type, <<"L", "E">>) =>
                 tag.metric.endianness = Null

====
